---- MODULE Spec2Model ----
(***************************************************************************)
(* Model of the learning/decision engine of raspi-doctor                   *)
(* (src/enhanced_doctor.py): KnowledgeBase (pattern, outcome and metric    *)
(* tables, similarity, trends) and AutonomousDoctor (collect, analyze,     *)
(* execute, log).                                                          *)
(* Spec is the cycle of run_enhanced, SpecCheck the repeated diagnostic    *)
(* run of src/test_system_issues.py, SpecStore and SpecSim the calls of    *)
(* the KnowledgeBase on their own.  SpecTrend is store_metric and          *)
(* get_metric_trend over two days (src/test_db.py), SpecKb all operations  *)
(* of the KnowledgeBase on a database that may lose tables, SpecRace       *)
(* store_pattern called by two cycles at once (src/app.py), SpecService    *)
(* and FairService the loop of src/doctor_service.py, SpecShutdown that    *)
(* loop and the signals that stop it.  SpecAi and FairAi are a call to the *)
(* model server (src/ollama_client.py, src/doctor.py), SpecTriage the      *)
(* ServiceTroubleshooter, SpecImprove calculate_improvement, SpecRestart   *)
(* enhanced_restart_failed_services, SpecShared the doctor that app.py     *)
(* shares between threads, SpecLearn and FairLearn the traffic of the      *)
(* cycle on system_patterns, SpecFallback the cycle with the consultation  *)
(* that follows its loop.                                                  *)
(*                                                                         *)
(* Conventions.  A Python dict is a sequence of <<key, value>> pairs in    *)
(* insertion order, with distinct keys.  A value is a tagged record (Num,  *)
(* Str, Map).  A float is an exact rational <<numerator, denominator>>     *)
(* with a positive denominator, kept in lowest terms.  A text is a         *)
(* sequence of tokens, so that a prefix such as "ERROR:" is its first      *)
(* token.  Severity and confidence are counted in tenths.  md5 is taken    *)
(* to be injective on the texts it digests.                                *)
(***************************************************************************)
EXTENDS Integers, Sequences, FiniteSets, TLC

VARIABLES
    now,              \* datetime.datetime.now(), a logical clock
    tables,           \* the tables present in knowledge.db
    patterns,         \* rows of system_patterns, in rowid order
    outcomes,         \* rows of action_outcomes, in rowid order
    metrics,          \* rows of long_term_metrics, in rowid order
    actions_log,      \* lines of ACTIONS_LOG
    health_data,      \* AutonomousDoctor.health_data
    previous_health,  \* the snapshot health_data held before the last collect
    actions_enabled,  \* AutonomousDoctor.actions_enabled (config['actions'])
    recommended,      \* run_enhanced: the actions still to execute
    pc,               \* run_enhanced: position in the cycle
    cmd_log,          \* the commands handed to subprocess.run so far
    ret,              \* what the last call returned
    arg1, arg2,       \* the arguments of the last call; in the later
                      \* specifications arg2 holds the result before the
                      \* last (SpecKb) or the stop signal (SpecShutdown)
    calls,            \* history: the store_pattern calls made, oldest first
    ops,              \* history: the number of calls made since construction
    cycles            \* history: the number of cycles started

vars == <<now, tables, patterns, outcomes, metrics, actions_log, health_data,
          previous_health, actions_enabled, recommended, pc, cmd_log, ret,
          arg1, arg2, calls, ops, cycles>>

-----------------------------------------------------------------------------
(* Bounds of the model *)

MaxNum == 2          \* numeric values of compared patterns lie in -MaxNum..MaxNum
MaxPreload == 11     \* patterns a knowledge.db may hold when it is opened
MaxStoreOps == 3     \* store_pattern calls made after the database is opened
MaxCycles == 2       \* cycles of run_enhanced
MaxElevated == 1     \* readings of one snapshot that lie above their threshold

-----------------------------------------------------------------------------
(* Arithmetic *)

Abs(n) == IF n < 0 THEN -n ELSE n

Max(a, b) == IF a >= b THEN a ELSE b

RECURSIVE Gcd(_, _)
Gcd(a, b) == IF b = 0 THEN a ELSE Gcd(b, a % b)

Rat(n, d) ==
    LET g == Gcd(Abs(n), d) IN
    IF n = 0 THEN <<0, 1>> ELSE <<n \div g, d \div g>>

RatAdd(x, y) == Rat(x[1] * y[2] + y[1] * x[2], x[2] * y[2])

RatLess(x, y) == x[1] * y[2] < y[1] * x[2]

RatLeq(x, y) == x[1] * y[2] <= y[1] * x[2]

Zero == <<0, 1>>

One == <<1, 1>>

-----------------------------------------------------------------------------
(* Python values and dicts *)

Num(n) == [kind |-> "num", num |-> n, str |-> "", map |-> <<>>]

Str(s) == [kind |-> "str", num |-> 0, str |-> s, map |-> <<>>]

Map(f) == [kind |-> "map", num |-> 0, str |-> "", map |-> f]

IsNumber(v) == v.kind = "num"

DictKeys(d) == {d[i][1] : i \in 1..Len(d)}

DictGet(d, k) == d[CHOOSE i \in 1..Len(d) : d[i][1] = k][2]

(* The keys of every dict of the model, in the order json.dumps(sort_keys=True)
   puts them (ascending code points). *)
KeyOrder ==
    <<"a", "action", "action_taken", "b", "cpu", "disk", "hardware", "id",
      "issue_type", "logs_sample", "memory", "network", "security", "service",
      "services", "status_output", "swap">>

KeyRank(k) == CHOOSE i \in 1..Len(KeyOrder) : KeyOrder[i] = k

RECURSIVE InsertByKey(_, _)
InsertByKey(sorted, kv) ==
    IF sorted = <<>> THEN <<kv>>
    ELSE IF KeyRank(kv[1]) < KeyRank(Head(sorted)[1]) THEN <<kv>> \o sorted
    ELSE <<Head(sorted)>> \o InsertByKey(Tail(sorted), kv)

RECURSIVE SortKeys(_)
SortKeys(d) ==
    IF d = <<>> THEN <<>>
    ELSE InsertByKey(SortKeys(SubSeq(d, 1, Len(d) - 1)), d[Len(d)])

(* json.dumps(pattern_data, sort_keys=True): the pairs in key order. *)
CanonicalJson(d) == SortKeys(d)

(* The digest of the text as it would be without sort_keys. *)
PatternHashUnsorted(d) == <<"md5", d>>

(* hashlib.md5(...).hexdigest() of the canonical text. *)
PatternHash(d) == <<"md5", CanonicalJson(d)>>

(* Python's == on two dicts: the same keys with equal values, in any order. *)
DictEq(d1, d2) ==
    /\ DictKeys(d1) = DictKeys(d2)
    /\ \A k \in DictKeys(d1) : DictGet(d1, k) = DictGet(d2, k)

-----------------------------------------------------------------------------
(* KnowledgeBase.calculate_similarity *)

(* As KeySimilarity, but comparing numbers only. *)
KeySimilarityNumbersOnly(v1, v2) ==
    IF IsNumber(v1) /\ IsNumber(v2)
    THEN LET max_val == Max(Abs(v1.num), Abs(v2.num)) IN
         IF max_val > 0
         THEN Rat(max_val - Abs(v1.num - v2.num), max_val)
         ELSE One
    ELSE Zero

(* What one common key adds to the sum: 1.0 for equal values, the relative
   closeness for two unequal numbers, nothing otherwise. *)
KeySimilarity(v1, v2) ==
    IF v1 = v2 THEN One
    ELSE IF IsNumber(v1) /\ IsNumber(v2)
         THEN LET max_val == Max(Abs(v1.num), Abs(v2.num)) IN
              IF max_val > 0
              THEN Rat(max_val - Abs(v1.num - v2.num), max_val)
              ELSE Zero
         ELSE Zero

RECURSIVE SumSimilarity(_, _, _)
SumSimilarity(keys, pattern1, pattern2) ==
    IF keys = {} THEN Zero
    ELSE LET key == CHOOSE k \in keys : TRUE IN
         RatAdd(KeySimilarity(DictGet(pattern1, key), DictGet(pattern2, key)),
                SumSimilarity(keys \ {key}, pattern1, pattern2))

calculate_similarity(pattern1, pattern2) ==
    LET common_keys == DictKeys(pattern1) \cap DictKeys(pattern2)
        similarity == SumSimilarity(common_keys, pattern1, pattern2)
    IN  IF common_keys = {} THEN Zero
        ELSE Rat(similarity[1], similarity[2] * Cardinality(common_keys))

-----------------------------------------------------------------------------
(* Sorting as Python's sorted(..., reverse=True) does it: by key, largest
   first, items of equal key in the order they had.  Items are
   <<key, item>> with a rational key. *)

RECURSIVE InsertDesc(_, _)
InsertDesc(sorted, x) ==
    IF sorted = <<>> THEN <<x>>
    ELSE IF RatLess(Head(sorted)[1], x[1]) THEN <<x>> \o sorted
    ELSE <<Head(sorted)>> \o InsertDesc(Tail(sorted), x)

RECURSIVE SortedDesc(_)
SortedDesc(s) ==
    IF s = <<>> THEN <<>>
    ELSE InsertDesc(SortedDesc(SubSeq(s, 1, Len(s) - 1)), s[Len(s)])

Items(keyed) == [i \in 1..Len(keyed) |-> keyed[i][2]]

FirstN(s, n) == IF Len(s) <= n THEN s ELSE SubSeq(s, 1, n)

-----------------------------------------------------------------------------
(* KnowledgeBase: the tables *)

RequiredTables == {"system_patterns", "action_outcomes", "long_term_metrics"}

(* ensure_tables_exist(): True when no required table is missing. *)
TablesExist == RequiredTables \subseteq tables

(* LIMIT 10 of the candidate query of get_similar_patterns. *)
QueryLimit == 10

(* The UPDATE or INSERT of store_pattern on the rows of system_patterns. *)
UpsertPattern(rows, timestamp, pattern_type, pattern_data, severity, confidence, solution) ==
    LET pattern_hash == PatternHash(pattern_data)
        existing == {i \in 1..Len(rows) : rows[i].pattern_hash = pattern_hash}
    IN  IF existing # {}
        THEN [i \in 1..Len(rows) |->
                IF i \in existing
                THEN [rows[i] EXCEPT !.last_seen = timestamp,
                                     !.occurrence_count = @ + 1]
                ELSE rows[i]]
        ELSE Append(rows,
                [pattern_hash |-> pattern_hash, pattern_type |-> pattern_type,
                 pattern_data |-> pattern_data, first_seen |-> timestamp,
                 last_seen |-> timestamp, occurrence_count |-> 1,
                 severity |-> severity, confidence |-> confidence,
                 solution |-> solution, success_rate |-> 0])

(* A SELECT without the condition on occurrence_count. *)
CandidateRowsAnyCount(rows, pattern_type) ==
    LET wanted == SelectSeq(rows, LAMBDA r :
                    pattern_type # "" => r.pattern_type = pattern_type)
        keyed == [i \in 1..Len(wanted) |-> <<Rat(wanted[i].last_seen, 1), wanted[i]>>]
    IN  FirstN(Items(SortedDesc(keyed)), QueryLimit)

(* The SELECT of get_similar_patterns: rows of the type (any type when
   pattern_type is empty) seen more than twice, most recently seen first,
   at most QueryLimit of them. *)
CandidateRows(rows, pattern_type) ==
    LET wanted == SelectSeq(rows, LAMBDA r :
                    /\ (pattern_type # "" => r.pattern_type = pattern_type)
                    /\ r.occurrence_count > 2)
        keyed == [i \in 1..Len(wanted) |-> <<Rat(wanted[i].last_seen, 1), wanted[i]>>]
    IN  FirstN(Items(SortedDesc(keyed)), QueryLimit)

(* get_similar_patterns on the rows: the candidates at least `threshold`
   similar to pattern_data, most similar first. *)
SimilarPatterns(rows, pattern_data, pattern_type, threshold) ==
    LET cand == CandidateRows(rows, pattern_type)
        scored == [i \in 1..Len(cand) |->
                    [hash |-> cand[i].pattern_hash, data |-> cand[i].pattern_data,
                     severity |-> cand[i].severity, confidence |-> cand[i].confidence,
                     solution |-> cand[i].solution, success_rate |-> cand[i].success_rate,
                     similarity |-> calculate_similarity(pattern_data, cand[i].pattern_data)]]
        kept == SelectSeq(scored, LAMBDA p : RatLeq(threshold, p.similarity))
        keyed == [i \in 1..Len(kept) |-> <<kept[i].similarity, kept[i]>>]
    IN  Items(SortedDesc(keyed))

(* What the variables hold when nothing has been called yet. *)
NoValue == [op |-> "none"]

Quiet ==
    /\ tables = RequiredTables
    /\ outcomes = <<>> /\ metrics = <<>> /\ actions_log = <<>>
    /\ health_data = [kind |-> "empty"] /\ previous_health = [kind |-> "empty"]
    /\ recommended = <<>> /\ pc = "idle" /\ cmd_log = <<>>
    /\ ret = NoValue /\ arg1 = <<>> /\ arg2 = <<>>
    /\ ops = 0 /\ cycles = 0

-----------------------------------------------------------------------------
(* calculate_similarity on two mappings drawn from a bounded set. *)

SimKeys == {"a", "b"}

SimValues ==
    {Num(n) : n \in (0 - MaxNum)..MaxNum}
        \cup {Str("x"), Map([percent |-> 1])}

(* Every dict over SimKeys, in every insertion order. *)
SimDicts ==
    {<<>>}
        \cup {<<(<<k, v>>)>> : k \in SimKeys, v \in SimValues}
        \cup {d \in {<<(<<k1, v1>>), (<<k2, v2>>)>> :
                        k1 \in SimKeys, k2 \in SimKeys,
                        v1 \in SimValues, v2 \in SimValues} : d[1][1] # d[2][1]}

InitSim ==
    /\ Quiet
    /\ actions_enabled = <<>>
    /\ now = 0 /\ patterns = <<>> /\ calls = <<>>

(* One call calculate_similarity(pattern1, pattern2). *)
CalcSimilarity ==
    /\ ret = NoValue
    /\ \E pattern1 \in SimDicts, pattern2 \in SimDicts :
        /\ arg1' = pattern1
        /\ arg2' = pattern2
        /\ ret' = [op |-> "calculate_similarity",
                   value |-> calculate_similarity(pattern1, pattern2)]
    /\ ops' = ops + 1
    /\ UNCHANGED <<now, tables, patterns, outcomes, metrics, actions_log,
                   health_data, previous_health, actions_enabled, recommended,
                   pc, cmd_log, calls, cycles>>

NextSim == CalcSimilarity

SpecSim == InitSim /\ [][NextSim]_vars

(* C9: the similarity score of any two mappings lies in [0, 1], whatever the
   signs of their numeric values. *)
C9_ScoreInUnitInterval ==
    ret.op = "calculate_similarity" =>
        /\ RatLeq(Zero, ret.value)
        /\ RatLeq(ret.value, One)
-----------------------------------------------------------------------------
(* KnowledgeBase.store_pattern and get_similar_patterns as public calls on a
   database that already holds what earlier store_pattern calls left. *)

PreloadData(i) == <<(<<"id", Num(i)>>)>>

(* The earlier calls: each of n patterns stored three times, in rounds. *)
PreloadCalls(n) ==
    [j \in 1..(3 * n) |->
        [pattern_type |-> "system_state", pattern_data |-> PreloadData(((j - 1) % n) + 1),
         severity |-> 5, confidence |-> 5, solution |-> "clear_cache"]]

(* The rows those calls leave: call j is made at time j - 1, so pattern i
   is inserted at time i - 1 and last updated at time 2n + i - 1. *)
PreloadRows(n) ==
    [i \in 1..n |->
        [pattern_hash |-> PatternHash(PreloadData(i)), pattern_type |-> "system_state",
         pattern_data |-> PreloadData(i), first_seen |-> i - 1,
         last_seen |-> 2 * n + i - 1, occurrence_count |-> 3,
         severity |-> 5, confidence |-> 5, solution |-> "clear_cache",
         success_rate |-> 0]]

DataAB == <<(<<"a", Num(1)>>), (<<"b", Str("x")>>)>>

DataBA == <<(<<"b", Str("x")>>), (<<"a", Num(1)>>)>>

DataNested == <<(<<"cpu", Map([percent |-> 50])>>), (<<"a", Num(2)>>)>>

StoreCalls ==
    {[pattern_type |-> "system_state", pattern_data |-> DataAB,
      severity |-> 5, confidence |-> 5, solution |-> ""],
     [pattern_type |-> "service_issue", pattern_data |-> DataBA,
      severity |-> 8, confidence |-> 9, solution |-> "clear_cache"],
     [pattern_type |-> "system_state", pattern_data |-> DataNested,
      severity |-> 8, confidence |-> 5, solution |-> "throttle_cpu"],
     [pattern_type |-> "service_issue", pattern_data |-> PreloadData(1),
      severity |-> 3, confidence |-> 5, solution |-> "stop_service"]}

Queries ==
    [pattern_data : {DataBA, DataNested, PreloadData(1)},
     pattern_type : {"", "system_state", "service_issue"},
     threshold : {<<4, 5>>, One}]
    \cup [pattern_data : {PreloadData(3)}, pattern_type : {"", "system_state"},
          threshold : {<<1, 2>>}]

InitStore ==
    /\ Quiet
    /\ actions_enabled = <<>>
    /\ \E n \in {0, MaxPreload} :
        /\ patterns = PreloadRows(n)
        /\ calls = [j \in 1..(3 * n) |->
                      [hash |-> PatternHash(PreloadCalls(n)[j].pattern_data),
                       at |-> j - 1, call |-> PreloadCalls(n)[j]]]
        /\ now = 3 * n

(* store_pattern(pattern_type, pattern_data, severity, confidence, solution) *)
StorePattern ==
    /\ ops < MaxStoreOps
    /\ \E c \in StoreCalls :
        /\ IF TablesExist
           THEN /\ patterns' = UpsertPattern(patterns, now, c.pattern_type,
                                   c.pattern_data, c.severity, c.confidence, c.solution)
                /\ tables' = tables
                /\ ret' = [op |-> "store_pattern", value |-> TRUE]
           ELSE /\ patterns' = patterns
                /\ tables' = RequiredTables
                /\ ret' = [op |-> "store_pattern", value |-> FALSE]
        /\ calls' = Append(calls, [hash |-> PatternHash(c.pattern_data),
                                   at |-> now, call |-> c])
    /\ now' = now + 1
    /\ ops' = ops + 1
    /\ UNCHANGED <<outcomes, metrics, actions_log, health_data, previous_health,
                   actions_enabled, recommended, pc, cmd_log, arg1, arg2, cycles>>

(* get_similar_patterns(pattern_data, pattern_type, threshold) *)
GetSimilarPatterns ==
    /\ ret.op # "get_similar_patterns"
    /\ \E q \in Queries :
        /\ arg1' = q
        /\ IF TablesExist
           THEN /\ ret' = [op |-> "get_similar_patterns",
                           value |-> SimilarPatterns(patterns, q.pattern_data,
                                                     q.pattern_type, q.threshold)]
                /\ tables' = tables
           ELSE /\ ret' = [op |-> "get_similar_patterns", value |-> <<>>]
                /\ tables' = RequiredTables
    /\ UNCHANGED <<now, patterns, outcomes, metrics, actions_log, health_data,
                   previous_health, actions_enabled, recommended, pc, cmd_log,
                   arg2, calls, ops, cycles>>

NextStore == StorePattern \/ GetSimilarPatterns

SpecStore == InitStore /\ [][NextStore]_vars
CallsWithData(d) == {j \in 1..Len(calls) : DictEq(calls[j].call.pattern_data, d)}

RowsWithData(d) == {i \in 1..Len(patterns) : DictEq(patterns[i].pattern_data, d)}

(* C1: after any sequence of store_pattern calls on an initially empty
   system_patterns table there is exactly one row for each data stored
   (whatever the order of its keys), the row counts the calls made with that
   data, it is the only row with its hash, it keeps the time of the first
   such call as first_seen and the arguments of that call, and it has the
   time of the latest such call as last_seen; no row exists without a call. *)
C1_OneRowPerData ==
    /\ \A d \in {calls[j].call.pattern_data : j \in 1..Len(calls)} :
        LET with == CallsWithData(d)
            first == CHOOSE k \in with : \A m \in with : k <= m
            last == CHOOSE k \in with : \A m \in with : m <= k
            rows == RowsWithData(d)
        IN  /\ Cardinality(rows) = 1
            /\ \A i \in rows :
                /\ patterns[i].occurrence_count = Cardinality(with)
                /\ \A k \in with : calls[k].hash = patterns[i].pattern_hash
                /\ \A i2 \in 1..Len(patterns) :
                     patterns[i2].pattern_hash = patterns[i].pattern_hash => i2 = i
                /\ patterns[i].first_seen = calls[first].at
                /\ patterns[i].last_seen = calls[last].at
                /\ patterns[i].pattern_type = calls[first].call.pattern_type
                /\ patterns[i].severity = calls[first].call.severity
                /\ patterns[i].confidence = calls[first].call.confidence
                /\ patterns[i].solution = calls[first].call.solution
    /\ \A i \in 1..Len(patterns) : CallsWithData(patterns[i].pattern_data) # {}

(* A row counts two calls or more that gave the same data with its keys in
   another order and with another type, severity, confidence and solution. *)
C1_Witness ==
    \E i \in 1..Len(patterns), j1 \in 1..Len(calls), j2 \in 1..Len(calls) :
        /\ patterns[i].occurrence_count >= 2
        /\ calls[j1].hash = patterns[i].pattern_hash
        /\ calls[j2].hash = patterns[i].pattern_hash
        /\ calls[j1].call.pattern_data # calls[j2].call.pattern_data
        /\ calls[j1].call.pattern_type # calls[j2].call.pattern_type
        /\ calls[j1].call.solution # calls[j2].call.solution
        /\ ret = [op |-> "store_pattern", value |-> TRUE]

(* The rows a query may return for their recency: of the queried type, seen
   more than twice, with fewer than QueryLimit such rows seen later. *)
InRecentWindow(i, pattern_type) ==
    Cardinality({i2 \in 1..Len(patterns) :
        /\ (pattern_type # "" => patterns[i2].pattern_type = pattern_type)
        /\ patterns[i2].occurrence_count > 2
        /\ patterns[i2].last_seen > patterns[i].last_seen}) < QueryLimit

Returned(i) ==
    \E m \in 1..Len(ret.value) :
        /\ ret.value[m].hash = patterns[i].pattern_hash
        /\ ret.value[m].similarity = One

OwnDataQueried(i) ==
    /\ ret.op = "get_similar_patterns"
    /\ arg1.pattern_data # <<>>
    /\ DictEq(arg1.pattern_data, patterns[i].pattern_data)
    /\ (arg1.pattern_type # "" => patterns[i].pattern_type = arg1.pattern_type)
    /\ RatLeq(arg1.threshold, One)
    /\ patterns[i].occurrence_count >= 3

(* C10 as stated: score(A, A) = 1.0 for a non-empty mapping A, so a pattern
   stored at least 3 times is returned, with similarity 1.0, by a query with
   its own data (and its own type or none) at any threshold up to 1.0. *)
C10_OwnDataAlwaysReturned ==
    \A i \in 1..Len(patterns) : OwnDataQueried(i) => Returned(i)

(* C10 as amended: the same, for a pattern that is among the QueryLimit most
   recently seen patterns of the queried type with more than 2 occurrences. *)
C10_OwnDataReturnedInWindow ==
    \A i \in 1..Len(patterns) :
        OwnDataQueried(i) /\ InRecentWindow(i, arg1.pattern_type) => Returned(i)

(* A pattern with a nested value, stored three times by calls made after the
   database was opened, is queried with its own data and returned. *)
C10_Witness ==
    \E i \in 1..Len(patterns) :
        /\ OwnDataQueried(i)
        /\ InRecentWindow(i, arg1.pattern_type)
        /\ \E k \in DictKeys(arg1.pattern_data) : DictGet(arg1.pattern_data, k).kind = "map"
        /\ arg1.threshold = One
        /\ Returned(i)

(* C11: get_similar_patterns returns only stored patterns that were seen
   more than twice, have the queried type when one is given, are among the
   QueryLimit most recently seen such patterns and are at least `threshold`
   similar to the queried data, each once, most similar first. *)
C11_OnlyFrequentRecentSimilar ==
    ret.op = "get_similar_patterns" =>
        /\ \A m \in 1..Len(ret.value) :
            \E i \in 1..Len(patterns) :
                /\ patterns[i].pattern_hash = ret.value[m].hash
                /\ patterns[i].pattern_data = ret.value[m].data
                /\ patterns[i].occurrence_count > 2
                /\ arg1.pattern_type # "" => patterns[i].pattern_type = arg1.pattern_type
                /\ InRecentWindow(i, arg1.pattern_type)
                /\ ret.value[m].similarity
                      = calculate_similarity(arg1.pattern_data, patterns[i].pattern_data)
                /\ RatLeq(arg1.threshold, ret.value[m].similarity)
        /\ \A m1 \in 1..Len(ret.value), m2 \in 1..Len(ret.value) :
            /\ m1 < m2 => RatLeq(ret.value[m2].similarity, ret.value[m1].similarity)
            /\ m1 # m2 => ret.value[m1].hash # ret.value[m2].hash

(* A query returns several patterns, not in the order of their rows, while
   a row that is as similar as they are is left out because it was seen
   only once or twice, and another because it is not among the QueryLimit
   most recent. *)
C11_Witness ==
    /\ ret.op = "get_similar_patterns"
    /\ Len(ret.value) >= 3
    /\ \E m1 \in 1..Len(ret.value), m2 \in 1..Len(ret.value) :
          /\ m1 < m2
          /\ RatLess(ret.value[m2].similarity, ret.value[m1].similarity)
          /\ \E i1 \in 1..Len(patterns), i2 \in 1..Len(patterns) :
                /\ i2 < i1
                /\ patterns[i1].pattern_hash = ret.value[m1].hash
                /\ patterns[i2].pattern_hash = ret.value[m2].hash
    /\ \E i \in 1..Len(patterns) :
          /\ patterns[i].occurrence_count > 2
          /\ ~InRecentWindow(i, arg1.pattern_type)
          /\ \A m \in 1..Len(ret.value) : ret.value[m].hash # patterns[i].pattern_hash
    /\ \E i \in 1..Len(patterns) :
          /\ patterns[i].occurrence_count \in {1, 2}
          /\ \A m \in 1..Len(ret.value) : ret.value[m].hash # patterns[i].pattern_hash
-----------------------------------------------------------------------------
(* AutonomousDoctor: configuration *)

(* default_config['thresholds'] of load_config *)
Thresholds ==
    [cpu_temp |-> 75, memory_usage |-> 85, disk_usage |-> 90, load_15min |-> 3,
     failed_logins |-> 10, packet_loss |-> 5, latency |-> 100]

(* config['learning']['trend_analysis_hours'] *)
TrendAnalysisHours == 72

(* The key f'auto_{action_type}' of config['actions']. *)
AutoKey(action_type) == <<"auto_", action_type>>

(* default_config['actions'] of load_config: what actions_enabled is when
   config.yaml has no 'actions' section. *)
DefaultActions ==
    <<(<<AutoKey("block_ips"), "True">>), (<<AutoKey("restart_services"), "True">>),
      (<<AutoKey("optimize_network"), "True">>), (<<AutoKey("clear_cache"), "True">>),
      (<<AutoKey("manage_services"), "True">>), (<<AutoKey("learn_patterns"), "True">>)>>

(* An 'actions' section of config.yaml; {**default_config, **loaded_config}
   puts it in the place of the default one. *)
LoadedActions ==
    <<(<<AutoKey("clear_cache"), "False">>), (<<AutoKey("clean_logs"), "None">>),
      (<<AutoKey("manage_services"), "True">>), (<<AutoKey("increase_security"), "False">>)>>

(* dict.get(key, default) *)
DictGetOr(d, k, default) == IF k \in DictKeys(d) THEN DictGet(d, k) ELSE default

(* The truth value Python gives a YAML scalar in a condition. *)
Truthy(v) == v \notin {"False", "None"}

-----------------------------------------------------------------------------
(* AutonomousDoctor.collect_health_data: the snapshot *)

NoHealth == [kind |-> "empty"]

(* The readings of one collection.  The fields of the sections that no rule,
   handler or score reads (sizes in GB, I/O counters, clock, voltage) are
   left out. *)
Snapshot(ts, r) ==
    [kind |-> "full", timestamp |-> ts,
     cpu |-> [percent |-> r.cpu_percent, load_15min |-> r.load_15min,
              temperature |-> r.temperature],
     memory |-> [percent |-> r.memory_percent],
     swap |-> [percent |-> 0],
     disk |-> [percent |-> r.disk_percent],
     network |-> [latency_ms |-> r.latency_ms,
                  packet_loss_percent |-> r.packet_loss_percent],
     hardware |-> [throttling_status |-> "throttled=0x0"],
     services |-> [failed_count |-> r.failed_count],
     security |-> [failed_logins |-> r.failed_logins,
                   suspicious_ips |-> r.suspicious_ips]]

(* The except branch of collect_health_data. *)
ErrorSnapshot(ts) == [kind |-> "error", timestamp |-> ts, error |-> "exception"]

(* metrics_to_store of store_long_term_metrics *)
MetricsToStore(h) ==
    <<(<<"cpu_percent", h.cpu.percent>>), (<<"cpu_temperature", h.cpu.temperature>>),
      (<<"memory_percent", h.memory.percent>>), (<<"disk_percent", h.disk.percent>>),
      (<<"load_15min", h.cpu.load_15min>>), (<<"network_latency", h.network.latency_ms>>),
      (<<"packet_loss", h.network.packet_loss_percent>>),
      (<<"failed_services", h.services.failed_count>>),
      (<<"failed_logins", h.security.failed_logins>>)>>

(* The INSERTs of store_metric for one snapshot, at time ts. *)
StoredMetrics(rows, h, ts) ==
    rows \o [i \in 1..Len(MetricsToStore(h)) |->
                [metric_name |-> MetricsToStore(h)[i][1],
                 metric_value |-> MetricsToStore(h)[i][2],
                 timestamp |-> ts]]

(* system_pattern of analyze_system_state: health_data without its
   timestamp, a dict of the sections. *)
SystemPattern(h) ==
    <<(<<"cpu", Map(h.cpu)>>), (<<"memory", Map(h.memory)>>), (<<"swap", Map(h.swap)>>),
      (<<"disk", Map(h.disk)>>), (<<"network", Map(h.network)>>),
      (<<"hardware", Map(h.hardware)>>), (<<"services", Map(h.services)>>),
      (<<"security", Map(h.security)>>)>>

(* hashlib.md5(json.dumps(self.health_data, sort_keys=True)) of log_action *)
StateHash(h) == <<"md5", h>>

-----------------------------------------------------------------------------
(* KnowledgeBase.get_metric_trend *)

RECURSIVE SumSeq(_)
SumSeq(s) == IF s = <<>> THEN 0 ELSE Head(s) + SumSeq(Tail(s))

(* np.polyfit(np.arange(len(values)), values, 1)[0]: the least-squares slope
   of the values against their index 0, 1, 2, ... *)
PolyfitSlope(values) ==
    LET n == Len(values)
        sx == SumSeq([i \in 1..n |-> i - 1])
        sy == SumSeq(values)
        sxy == SumSeq([i \in 1..n |-> (i - 1) * values[i]])
        sxx == SumSeq([i \in 1..n |-> (i - 1) * (i - 1)])
    IN  Rat(n * sxy - sx * sy, n * sxx - sx * sx)

(* The trend when a slope of exactly 0.1 or -0.1 already counts as a change. *)
TrendOfInclusive(slope) ==
    IF RatLeq(<<1, 10>>, slope) THEN "increasing"
    ELSE IF RatLeq(slope, <<-1, 10>>) THEN "decreasing"
    ELSE "stable"

(* trend = "increasing" if slope > 0.1 else "decreasing" if slope < -0.1
   else "stable" *)
TrendOf(slope) ==
    IF RatLess(<<1, 10>>, slope) THEN "increasing"
    ELSE IF RatLess(slope, <<-1, 10>>) THEN "decreasing"
    ELSE "stable"

NoTrend == [found |-> FALSE]

(* Times are hours since midnight of day 0.  datetime.isoformat(), the text
   store_metric stores: the date, the letter T, the time of day. *)
Isoformat(t) == <<t \div 24, "T", t % 24>>

(* The text sqlite3 binds for a datetime parameter, isoformat(" "): the
   date, a space, the time of day. *)
AdaptDatetime(t) == <<t \div 24, " ", t % 24>>

(* The order of the two separators as characters. *)
CharCode(c) == IF c = " " THEN 32 ELSE 84

(* text1 < text2 as SQLite compares two TEXT values of this layout *)
TextLess(text1, text2) ==
    \/ text1[1] < text2[1]
    \/ text1[1] = text2[1] /\ CharCode(text1[2]) < CharCode(text2[2])
    \/ text1[1] = text2[1] /\ text1[2] = text2[2] /\ text1[3] < text2[3]

(* The test `timestamp > ?` of the SELECT: the stored text against the text
   bound for the cutoff. *)
NewerThan(timestamp, cutoff) == TextLess(AdaptDatetime(cutoff), Isoformat(timestamp))

MinOf(values) == CHOOSE v \in {values[i] : i \in 1..Len(values)} :
                    \A i \in 1..Len(values) : v <= values[i]

MaxOf(values) == CHOOSE v \in {values[i] : i \in 1..Len(values)} :
                    \A i \in 1..Len(values) : v >= values[i]

(* The rows of the metric the SELECT returns, in time order (rows are
   inserted in time order), and what get_metric_trend makes of them. *)
get_metric_trend(rows, metric_name, hours, at) ==
    LET cutoff == at - hours
        results == SelectSeq(rows, LAMBDA r :
                      r.metric_name = metric_name /\ NewerThan(r.timestamp, cutoff))
        values == [i \in 1..Len(results) |-> results[i].metric_value]
    IN  IF Len(results) < 2 THEN NoTrend
        ELSE [found |-> TRUE, values |-> values,
              timestamps |-> [i \in 1..Len(results) |-> Isoformat(results[i].timestamp)],
              trend |-> TrendOf(PolyfitSlope(values)),
              slope |-> PolyfitSlope(values),
              current |-> values[Len(values)],
              average |-> Rat(SumSeq(values), Len(values)),
              min |-> MinOf(values),
              max |-> MaxOf(values)]
-----------------------------------------------------------------------------
(* AutonomousDoctor.analyze_system_state *)

Action(action, target, priority, reason) ==
    [action |-> action, target |-> target, priority |-> priority, reason |-> reason,
     learned_pattern |-> FALSE, smart_troubleshooting |-> FALSE]

When(cond, a) == IF cond THEN <<a>> ELSE <<>>

(* The comparison of a reading with its threshold, as with >=. *)
ExceedsOrEquals(value, threshold) == value >= threshold

(* The comparison of a reading with its threshold. *)
Exceeds(value, threshold) == value > threshold

(* The learned actions when a pattern is urgent from severity 0.7 on and an
   empty solution is taken as well. *)
LearnedActionsLoose(similar_patterns) ==
    [i \in 1..Len(similar_patterns) |->
        [action |-> similar_patterns[i].solution, target |-> "",
         priority |-> IF similar_patterns[i].severity >= 7 THEN "high" ELSE "medium",
         reason |-> "Matched learned pattern",
         learned_pattern |-> TRUE, smart_troubleshooting |-> FALSE]]

(* The actions added for the learned patterns that match the snapshot. *)
LearnedActions(similar_patterns) ==
    LET good == SelectSeq(similar_patterns, LAMBDA p :
                    RatLess(<<3, 4>>, p.similarity) /\ p.solution # "")
    IN  [i \in 1..Len(good) |->
            [action |-> good[i].solution, target |-> "",
             priority |-> IF good[i].severity > 7 THEN "high" ELSE "medium",
             reason |-> "Matched learned pattern",
             learned_pattern |-> TRUE, smart_troubleshooting |-> FALSE]]

(* The threshold rules, in the order of the code. *)
ThresholdActions(h) ==
    When(Exceeds(h.cpu.temperature, Thresholds.cpu_temp),
         Action("throttle_cpu", "", "high", "CPU temperature critical"))
    \o When(Exceeds(h.memory.percent, Thresholds.memory_usage),
            Action("clear_cache", "", "medium", "High memory usage"))
    \o When(Exceeds(h.disk.percent, Thresholds.disk_usage),
            Action("clean_logs", "", "high", "Disk usage critical"))
    \o When(Exceeds(h.cpu.load_15min, Thresholds.load_15min),
            Action("manage_services", "stop_non_essential", "medium", "High system load"))
    \o When(Exceeds(h.services.failed_count, 0),
            [Action("restart_failed_services", "", "medium", "failed services detected")
                EXCEPT !.smart_troubleshooting = TRUE])
    \o When(Exceeds(h.security.failed_logins, Thresholds.failed_logins),
            Action("increase_security", "", "high", "High failed login attempts"))
    \o When(Exceeds(h.network.packet_loss_percent, Thresholds.packet_loss),
            Action("optimize_network", "", "medium", "High packet loss"))

(* trends_to_check of check_long_term_trends *)
TrendsToCheck ==
    <<(<<"cpu_temperature", "high", "CPU temperature trending upward">>),
      (<<"memory_percent", "high", "Memory usage trending upward">>),
      (<<"disk_percent", "high", "Disk usage trending upward">>),
      (<<"load_15min", "high", "System load trending upward">>)>>

RECURSIVE TrendActions(_, _, _)
TrendActions(todo, rows, at) ==
    IF todo = <<>> THEN <<>>
    ELSE LET metric == Head(todo)[1]
             direction == Head(todo)[2]
             trend == get_metric_trend(rows, metric, TrendAnalysisHours, at)
         IN  When(/\ trend.found
                  /\ trend.trend = direction
                  /\ RatLess(<<1, 2>>, Rat(Abs(trend.slope[1]), trend.slope[2])),
                  Action("investigate_trend", metric, "medium", Head(todo)[3]))
             \o TrendActions(Tail(todo), rows, at)

(* check_long_term_trends(); None for get_metric_trend when a table is missing *)
check_long_term_trends(rows, at) ==
    IF TablesExist THEN TrendActions(TrendsToCheck, rows, at) ELSE <<>>

(* priority_order.get(x['priority'], 0) *)
PriorityRank(priority) ==
    IF priority = "high" THEN 3
    ELSE IF priority = "medium" THEN 2
    ELSE IF priority = "low" THEN 1
    ELSE 0

RECURSIVE InsertDescFirst(_, _)
InsertDescFirst(sorted, x) ==
    IF sorted = <<>> THEN <<x>>
    ELSE IF RatLeq(Head(sorted)[1], x[1]) THEN <<x>> \o sorted
    ELSE <<Head(sorted)>> \o InsertDescFirst(Tail(sorted), x)

RECURSIVE SortedDescUnstable(_)
SortedDescUnstable(s) ==
    IF s = <<>> THEN <<>>
    ELSE InsertDescFirst(SortedDescUnstable(SubSeq(s, 1, Len(s) - 1)), s[Len(s)])

(* A sort by priority that puts actions of equal priority in reverse order. *)
SortByPriorityUnstable(actions) ==
    Items(SortedDescUnstable(
        [i \in 1..Len(actions) |->
            <<Rat(PriorityRank(actions[i].priority), 1), actions[i]>>]))

(* sorted(actions, key=lambda x: priority_order.get(x['priority'], 0),
   reverse=True) *)
SortByPriority(actions) ==
    Items(SortedDesc(
        [i \in 1..Len(actions) |->
            <<Rat(PriorityRank(actions[i].priority), 1), actions[i]>>]))

(* The list analyze_system_state builds before it sorts it. *)
Candidates(h, pattern_rows, metric_rows, at) ==
    LearnedActions(IF TablesExist
                   THEN SimilarPatterns(pattern_rows, SystemPattern(h),
                                        "system_state", <<4, 5>>)
                   ELSE <<>>)
    \o ThresholdActions(h)
    \o check_long_term_trends(metric_rows, at)

(* analyze_system_state() on a snapshot with all its sections; [] when
   health_data is empty. *)
analyze_system_state(h, pattern_rows, metric_rows, at) ==
    IF h.kind = "empty" THEN <<>>
    ELSE SortByPriority(Candidates(h, pattern_rows, metric_rows, at))
-----------------------------------------------------------------------------
(* AutonomousDoctor.run_command and the handlers of execute_action *)

(* How a command handed to subprocess.run may end. *)
CmdOutcomes == {"ok", "nonzero", "timeout"}

(* run_command(cmd): stdout when the command exits with 0, a text that
   begins with ERROR: otherwise. *)
run_command(outcome) ==
    IF outcome = "ok" THEN <<"stdout">>
    ELSE IF outcome = "nonzero" THEN <<"ERROR:", "stderr">>
    ELSE IF outcome = "timeout" THEN <<"ERROR:", "Command timed out">>
    ELSE <<"ERROR:", "exception">>

StartsWith(text, token) == Len(text) > 0 /\ text[1] = token

RECURSIVE JoinLines(_)
JoinLines(lines) ==
    IF lines = <<>> THEN <<>>
    ELSE IF Len(lines) = 1 THEN lines[1]
    ELSE lines[1] \o <<"\n">> \o JoinLines(Tail(lines))

(* What a handler did: the text it returned (or raised = TRUE), the commands
   it ran, the rows of system_patterns it left, and whether one of its
   commands was a remediation command (one that ends as env.outcome says). *)
Ran(result, cmds, rows, remedy) ==
    [raised |-> FALSE, result |-> result, cmds |-> cmds, patterns |-> rows,
     remedy |-> remedy]

Raised(cmds, rows, remedy) ==
    [raised |-> TRUE, result |-> <<"exception">>, cmds |-> cmds, patterns |-> rows,
     remedy |-> remedy]

(* optimize_network_settings() *)
optimize_network_settings(h, env, rows) ==
    IF h.kind # "full" THEN Raised(<<>>, rows, FALSE)
    ELSE LET sack == h.network.packet_loss_percent > 5
             scaling == h.network.latency_ms > 100
             results ==
                (IF sack THEN <<run_command(env.outcome),
                                <<"Disabled TCP SACK due to high packet loss">>>>
                 ELSE <<>>)
                \o (IF scaling THEN <<run_command(env.outcome),
                                      <<"Enabled TCP window scaling for high latency">>>>
                    ELSE <<>>)
             cmds == (IF sack THEN <<(<<"sysctl -w net.ipv4.tcp_sack=0", "">>)>> ELSE <<>>)
                     \o (IF scaling
                         THEN <<(<<"sysctl -w net.ipv4.tcp_window_scaling=1", "">>)>>
                         ELSE <<>>)
         IN  Ran(IF results # <<>> THEN JoinLines(results)
                 ELSE <<"No network optimization needed">>, cmds, rows, cmds # <<>>)

(* non_essential of manage_services *)
NonEssential == <<"bluetooth", "avahi-daemon", "triggerhappy", "wolfram-engine">>

(* manage_services(operation); env.active are the services for which
   systemctl is-active prints "active". *)
manage_services(operation, env, rows) ==
    IF operation = "stop_non_essential"
    THEN LET running == SelectSeq(NonEssential, LAMBDA sv : sv \in env.active)
             results == [i \in 1..Len(running) |->
                            <<"Stopped", running[i]>> \o run_command(env.outcome)]
             probes == [i \in 1..Len(NonEssential) |->
                            <<"systemctl is-active", NonEssential[i]>>]
             stops == [i \in 1..Len(running) |-> <<"systemctl stop", running[i]>>]
         IN  Ran(IF results # <<>> THEN JoinLines(results)
                 ELSE <<"No non-essential services running">>,
                 probes \o stops, rows, stops # <<>>)
    ELSE Ran(<<"Unknown operation:", operation>>, <<>>, rows, FALSE)

(* increase_security() that also blocks an address seen 20 times. *)
increase_security_from_20(h, env, rows) ==
    IF h.kind # "full" THEN Raised(<<>>, rows, FALSE)
    ELSE LET ips == h.security.suspicious_ips
             banned == SelectSeq(ips, LAMBDA e : e[2] >= 20)
             harden == h.security.failed_logins > 50
             results ==
                [i \in 1..Len(banned) |->
                    <<"Blocked", banned[i][1]>> \o run_command(env.outcome)]
                \o (IF harden THEN <<(<<"Disabled root SSH login">>),
                                     run_command(env.outcome)>>
                    ELSE <<>>)
             cmds == [i \in 1..Len(banned) |-> <<"ufw deny from", banned[i][1]>>]
                     \o (IF harden
                         THEN <<(<<"sed -i PermitRootLogin no", "">>),
                                (<<"systemctl restart", "ssh">>)>>
                         ELSE <<>>)
         IN  Ran(IF results # <<>> THEN JoinLines(results)
                 ELSE <<"No security enhancements needed">>, cmds, rows, cmds # <<>>)

(* increase_security() *)
increase_security(h, env, rows) ==
    IF h.kind # "full" THEN Raised(<<>>, rows, FALSE)
    ELSE LET ips == h.security.suspicious_ips
             banned == SelectSeq(ips, LAMBDA e : e[2] > 20)
             harden == h.security.failed_logins > 50
             results ==
                [i \in 1..Len(banned) |->
                    <<"Blocked", banned[i][1]>> \o run_command(env.outcome)]
                \o (IF harden THEN <<(<<"Disabled root SSH login">>),
                                     run_command(env.outcome)>>
                    ELSE <<>>)
             cmds == [i \in 1..Len(banned) |-> <<"ufw deny from", banned[i][1]>>]
                     \o (IF harden
                         THEN <<(<<"sed -i PermitRootLogin no", "">>),
                                (<<"systemctl restart", "ssh">>)>>
                         ELSE <<>>)
         IN  Ran(IF results # <<>> THEN JoinLines(results)
                 ELSE <<"No security enhancements needed">>, cmds, rows, cmds # <<>>)

(* ban_ip(target) if target else "No IP specified" *)
ban_ip(target, env, rows) ==
    IF target # ""
    THEN Ran(run_command(env.outcome), <<(<<"ufw deny from", target>>)>>, rows, TRUE)
    ELSE Ran(<<"No IP specified">>, <<>>, rows, FALSE)
-----------------------------------------------------------------------------
(* ServiceTroubleshooter *)

(* problematic_patterns, in the order of the dict: the issue and its
   solution.  Whether a pattern occurs in a service name or in a status text
   is given with the service (name_has, status_has). *)
ProblematicPatterns ==
    <<(<<"rng-tools", "disable_service">>), (<<"avahi-daemon", "stop_service">>),
      (<<"bluetooth", "stop_service">>), (<<"failed-to-start", "investigate_logs">>),
      (<<"filesystem_recovery", "check_disk_health">>),
      (<<"orphan_inodes", "check_power_issues">>),
      (<<"ext4_recovery", "investigate_disk">>),
      (<<"cloudflared_yaml_error", "fix_cloudflared_config">>),
      (<<"cloudflared_config_error", "validate_cloudflared_config">>)>>

(* The recommendations for the problematic patterns found in the name or
   in the status text. *)
BuiltinRecommendations(sv, hits) ==
    [i \in 1..Len(hits) |->
        [service |-> sv.name, issue |-> hits[i][1], solution |-> hits[i][2],
         confidence |-> IF hits[i][1] \in sv.name_has THEN "high" ELSE "medium",
         source |-> "builtin_knowledge"]]

(* The recommendations for the similar patterns of the knowledge base. *)
LearnedRecommendations(sv, similar_patterns) ==
    [i \in 1..Len(similar_patterns) |->
        [service |-> sv.name, issue |-> "learned_pattern",
         solution |-> similar_patterns[i].solution,
         confidence |-> IF similar_patterns[i].confidence > 7
                        THEN "high" ELSE "medium",
         source |-> "learned_knowledge"]]

(* analyze_service_issue(service_name, service_status_output) *)
analyze_service_issue(sv, rows) ==
    BuiltinRecommendations(sv,
        SelectSeq(ProblematicPatterns, LAMBDA e :
            e[1] \in sv.name_has \/ e[1] \in sv.status_has))
    \o LearnedRecommendations(sv,
        SelectSeq(IF TablesExist
                  THEN SimilarPatterns(rows,
                          <<(<<"service", Str(sv.name)>>),
                            (<<"status_output", Str(sv.status)>>)>>,
                          "service_issue", <<4, 5>>)
                  ELSE <<>>,
                  LAMBDA p : RatLess(<<7, 10>>, p.similarity)))

(* execute_solution(recommendation, run_command): always SUCCESS:, whatever
   run_command returned.  store_pattern('service_logs', ..., severity=0.3)
   for investigate_logs. *)
execute_solution(recommendation, env, rows, ts) ==
    LET service == recommendation.service
        solution == recommendation.solution
    IN  IF solution = "disable_service"
        THEN Ran(<<"SUCCESS:", "Disabling problematic service", service>>,
                 <<(<<"systemctl disable --now", service>>),
                   (<<"systemctl mask", service>>)>>, rows, TRUE)
        ELSE IF solution = "stop_service"
        THEN Ran(<<"SUCCESS:", "Stopping non-essential service", service>>,
                 <<(<<"systemctl stop", service>>)>>, rows, TRUE)
        ELSE IF solution = "investigate_logs"
        THEN Ran(<<"SUCCESS:", "Investigating logs", service>>,
                 <<(<<"journalctl -u", service>>)>>,
                 IF TablesExist
                 THEN UpsertPattern(rows, ts, "service_logs",
                        <<(<<"service", Str(service)>>),
                          (<<"action", Str("investigate_logs")>>),
                          (<<"logs_sample",
                             Str(IF env.outcome = "ok" THEN "stdout"
                                 ELSE run_command(env.outcome)[2])>>)>>,
                        3, 5, "")
                 ELSE rows, TRUE)
        ELSE IF solution = "reinstall_service"
        THEN Ran(<<"SUCCESS:", "Reinstalling", service>>,
                 <<(<<"apt install --reinstall", service>>)>>, rows, TRUE)
        ELSE Ran(<<"SUCCESS:", "No action taken for", service>>, <<>>, rows, FALSE)
(* analyze_cloudflared_issue(service_name, service_status, service_logs) *)
analyze_cloudflared_issue(sv) ==
    When(sv.logs_yaml_error,
         [service |-> sv.name, issue |-> "cloudflared_yaml_error",
          solution |-> "fix_cloudflared_config", confidence |-> "high",
          source |-> "cloudflared_specific"])

(* "Error" in validation or "error" in validation: the test is case
   sensitive, and the text of a failed command begins with ERROR: *)
MentionsError(text) == \E i \in 1..Len(text) : text[i] \in {"Error", "error"}

(* execute_cloudflared_solution(recommendation, run_command); the validation
   command sends its stderr to stdout (2>&1). *)
execute_cloudflared_solution(recommendation, env, rows) ==
    LET validation == run_command(env.outcome)
    IN  IF recommendation.solution = "fix_cloudflared_config"
        THEN Ran(<<"SUCCESS:", "Attempting to fix Cloudflare config YAML issue">>
                    \o (IF MentionsError(validation)
                        THEN <<"- Created fixed config template">> ELSE <<>>),
                 <<(<<"cp config.yml config.yml.backup", "">>),
                   (<<"python3 -c yaml.safe_load", "">>)>>
                    \o (IF MentionsError(validation)
                        THEN <<(<<"echo default_config > config.yml.fixed", "">>)>>
                        ELSE <<>>),
                 rows, TRUE)
        ELSE Ran(<<"ERROR:", "Unknown Cloudflare solution:", recommendation.solution>>,
                 <<>>, rows, FALSE)

(* The line f"{service}: {result} {suffix}" that is added to results. *)
ResultLine(sv, run, suffix) == [run EXCEPT !.result = <<sv.name>> \o @ \o suffix]

(* The standard restart for a service nothing is recommended for;
   subprocess.run(check_cmd, shell=True) raises OSError when no shell can
   be started. *)
StandardRestart(sv, env, rows) ==
    IF sv.check = "oserror"
    THEN Raised(<<(<<"systemctl cat", sv.name>>)>>, rows, FALSE)
    ELSE IF sv.check = "valid"
    THEN ResultLine(sv, Ran(run_command(env.outcome),
                            <<(<<"systemctl cat", sv.name>>),
                              (<<"systemctl restart", sv.name>>)>>, rows, TRUE), <<>>)
    ELSE ResultLine(sv, Ran(<<"SKIPPED (not a valid service)">>,
                            <<(<<"systemctl cat", sv.name>>)>>, rows, FALSE), <<>>)

(* As Troubleshoot, applying the last recommendation of the list. *)
TroubleshootLast(sv, env, rows, ts, cloud, recommendations) ==
    IF cloud # <<>>
    THEN ResultLine(sv, execute_cloudflared_solution(cloud[1], env, rows),
                    <<"(Cloudflare-specific fix)">>)
    ELSE IF recommendations # <<>>
    THEN ResultLine(sv, execute_solution(recommendations[Len(recommendations)],
                                         env, rows, ts),
                    <<"(AI troubleshooting)">>)
    ELSE StandardRestart(sv, env, rows)

(* What enhanced_restart_failed_services does with one failed service, after
   it has read its status and its logs, given the recommendations of
   analyze_cloudflared_issue (none for another service) and of
   analyze_service_issue. *)
Troubleshoot(sv, env, rows, ts, cloud, recommendations) ==
    IF cloud # <<>>
    THEN ResultLine(sv, execute_cloudflared_solution(cloud[1], env, rows),
                    <<"(Cloudflare-specific fix)">>)
    ELSE IF recommendations # <<>>
    THEN ResultLine(sv, execute_solution(recommendations[1], env, rows, ts),
                    <<"(AI troubleshooting)">>)
    ELSE StandardRestart(sv, env, rows)

TroubleshootService(sv, env, rows, ts) ==
    Troubleshoot(sv, env, rows, ts,
                 IF sv.cloudflared THEN analyze_cloudflared_issue(sv) ELSE <<>>,
                 analyze_service_issue(sv, rows))

(* The commands that read the status and the logs of a failed service. *)
Probes(sv) == <<(<<"systemctl status", sv.name>>), (<<"journalctl -u", sv.name>>)>>

(* results, the commands and the patterns after one service and the rest. *)
AfterService(probes, one, rest) ==
    [raised |-> rest.raised, lines |-> <<one.result>> \o rest.lines,
     cmds |-> probes \o one.cmds \o rest.cmds, patterns |-> rest.patterns,
     remedy |-> one.remedy \/ rest.remedy]

(* The loop of enhanced_restart_failed_services over the failed services. *)
RECURSIVE RestartEach(_, _, _, _), RestartRest(_, _, _, _, _)
RestartEach(services, env, rows, ts) ==
    IF services = <<>>
    THEN [raised |-> FALSE, lines |-> <<>>, cmds |-> <<>>, patterns |-> rows,
          remedy |-> FALSE]
    ELSE RestartRest(Tail(services), env, ts, Probes(Head(services)),
                     TroubleshootService(Head(services), env, rows, ts))

RestartRest(todo, env, ts, probes, one) ==
    IF one.raised
    THEN [raised |-> TRUE, lines |-> <<>>, cmds |-> probes \o one.cmds,
          patterns |-> one.patterns, remedy |-> one.remedy]
    ELSE AfterService(probes, one, RestartEach(todo, env, one.patterns, ts))

(* What enhanced_restart_failed_services returns after its loop. *)
RestartResult(listing, each) ==
    IF each.raised
    THEN Raised(listing \o each.cmds, each.patterns, each.remedy)
    ELSE Ran(JoinLines(each.lines), listing \o each.cmds, each.patterns, each.remedy)

(* enhanced_restart_failed_services(); env.services are the units that
   systemctl --failed lists. *)
enhanced_restart_failed_services(env, rows, ts) ==
    IF env.services = <<>>
    THEN Ran(<<"No failed services found">>,
             <<(<<"systemctl --failed --no-legend", "">>)>>, rows, FALSE)
    ELSE RestartResult(<<(<<"systemctl --failed --no-legend", "">>)>>,
                       RestartEach(env.services, env, rows, ts))

-----------------------------------------------------------------------------
(* AutonomousDoctor.execute_action and log_action *)

(* The keys of action_handlers. *)
HandlerNames ==
    {"clear_cache", "throttle_cpu", "clean_logs", "restart_failed_services",
     "optimize_network", "manage_services", "increase_security", "ban_ip"}

(* A gate that looks at the dispatch table only. *)
GateIgnoresToggle(action, enabled) == action.action \in HandlerNames

(* action_type in action_handlers and
   self.actions_enabled.get(f'auto_{action_type}', True) *)
GatePasses(action, enabled) ==
    /\ action.action \in HandlerNames
    /\ Truthy(DictGetOr(enabled, AutoKey(action.action), "True"))

(* The call execute_action makes once the gate is passed. *)
RunHandler(action, h, env, rows, ts) ==
    LET Shell(cmd) == Ran(run_command(env.outcome), <<(<<cmd, "">>)>>, rows, TRUE)
    IN  IF action.smart_troubleshooting \/ action.action = "restart_failed_services"
        THEN enhanced_restart_failed_services(env, rows, ts)
        ELSE IF action.action = "clear_cache"
        THEN Shell("sync; echo 3 > /proc/sys/vm/drop_caches")
        ELSE IF action.action = "throttle_cpu"
        THEN Shell("echo powersave > scaling_governor")
        ELSE IF action.action = "clean_logs"
        THEN Shell("find /var/log -name *.log -mtime +7 -delete")
        ELSE IF action.action = "optimize_network"
        THEN optimize_network_settings(h, env, rows)
        ELSE IF action.action = "manage_services"
        THEN manage_services(action.target, env, rows)
        ELSE IF action.action = "increase_security"
        THEN increase_security(h, env, rows)
        ELSE ban_ip(action.target, env, rows)

(* The text execute_action returns and logs. *)
ResultText(action, run) ==
    IF run.raised THEN <<"Failed to execute", action.action, "exception">>
    ELSE run.result

(* The success argument of the two calls of log_action. *)
SuccessFlag(run) == IF run.raised THEN 0 ELSE 1

(* The row store_action_outcome inserts; improvement is its default. *)
OutcomeRow(action, run, h, ts) ==
    [action_type |-> action.action, target |-> action.target,
     reason |-> action.reason, result |-> ResultText(action, run),
     success |-> SuccessFlag(run), timestamp |-> ts,
     system_state_hash |-> StateHash(h), improvement |-> Zero]

(* action_outcomes after an execute_action that logs nothing when the
   handler raises. *)
OutcomesUnloggedOnRaise(rows, action, run, h, ts) ==
    IF run.raised \/ ~TablesExist THEN rows
    ELSE Append(rows, OutcomeRow(action, run, h, ts))

(* action_outcomes after the log_action of either path of execute_action. *)
OutcomesAfter(rows, action, run, h, ts) ==
    IF TablesExist THEN Append(rows, OutcomeRow(action, run, h, ts)) ELSE rows

(* The line log_action appends to actions.log. *)
LogLine(action, run, ts) ==
    [at |-> ts, status |-> IF SuccessFlag(run) = 1 THEN "SUCCESS" ELSE "FAILED",
     action |-> action.action, target |-> action.target,
     reason |-> action.reason, result |-> ResultText(action, run)]

(* As ImprovementTerm, relative to the current value. *)
ImprovementTermOfCurrent(w, prev_val, curr_val) ==
    IF curr_val > 0 THEN Rat(w * (prev_val - curr_val), curr_val) ELSE Zero

(* calculate_improvement(previous, current): the weights are in hundredths,
   so that weight * (prev - curr) / prev * 100 is w * (prev - curr) / prev. *)
ImprovementTerm(w, prev_val, curr_val) ==
    IF prev_val > 0 THEN Rat(w * (prev_val - curr_val), prev_val) ELSE Zero

calculate_improvement(previous, current) ==
    IF previous.kind = "empty" \/ current.kind = "empty" THEN Zero
    ELSE IF previous.kind # "full" \/ current.kind # "full" THEN <<"KeyError">>
    ELSE RatAdd(ImprovementTerm(25, previous.cpu.percent, current.cpu.percent),
         RatAdd(ImprovementTerm(25, previous.memory.percent, current.memory.percent),
         RatAdd(ImprovementTerm(20, previous.cpu.load_15min, current.cpu.load_15min),
         RatAdd(ImprovementTerm(15, previous.disk.percent, current.disk.percent),
                ImprovementTerm(15, previous.services.failed_count,
                                current.services.failed_count)))))
-----------------------------------------------------------------------------
(* AutonomousDoctor: the autonomous fixes of run_enhanced *)

(* raspberry_specific_issues: the issue and its command, in the order of
   the dict. *)
RaspberryIssues ==
    <<(<<"rng-tools", "apt install haveged && systemctl disable rng-tools-debian --now">>),
      (<<"memory_issues", "echo vm.swappiness=10 | tee -a /etc/sysctl.conf && sysctl -p">>),
      (<<"temperature", "echo powersave | tee scaling_governor">>)>>

(* get_fix_command(solution_type) *)
get_fix_command(solution_type) ==
    IF solution_type = "check_disk_health" THEN "smartctl -a /dev/mmcblk0 && fsck -n"
    ELSE IF solution_type = "check_power_issues" THEN "echo Check power supply"
    ELSE IF solution_type = "investigate_disk" THEN "dmesg | grep mmc && fsck -n"
    ELSE IF solution_type = "run_fsck" THEN "echo Schedule filesystem check"
    ELSE "echo No specific fix command"

(* detect_raspberry_specific_issues() + detect_journal_issues(); journal
   tells which detection texts and which problematic patterns the journal
   of the last hour contains. *)
DetectedIssues(journal) ==
    LET rasp == SelectSeq(RaspberryIssues, LAMBDA e : e[1] \in journal.raspberry)
        known == SelectSeq(ProblematicPatterns, LAMBDA e : e[1] \in journal.patterns)
    IN  [i \in 1..Len(rasp) |-> [issue |-> rasp[i][1], command |-> rasp[i][2]]]
        \o [i \in 1..Len(known) |->
              [issue |-> known[i][1], command |-> get_fix_command(known[i][2])]]

(* execute_autonomous_fixes(detected_issues): the rows of system_patterns it
   leaves.  store_pattern('raspberry_issue', pattern_data, severity=0.5). *)
RECURSIVE FixPatterns(_, _, _)
FixPatterns(issues, rows, ts) ==
    IF issues = <<>> THEN rows
    ELSE FixPatterns(Tail(issues),
            IF TablesExist
            THEN UpsertPattern(rows, ts, "raspberry_issue",
                    <<(<<"issue_type", Str(Head(issues).issue)>>),
                      (<<"action_taken", Str(Head(issues).command)>>)>>, 5, 5, "")
            ELSE rows, ts)

(* The commands execute_autonomous_fixes runs. *)
FixCommands(issues) == [i \in 1..Len(issues) |-> <<issues[i].command, "">>]
-----------------------------------------------------------------------------
(* The cycle of run_enhanced and what it meets *)

(* Readings that each equal their threshold, and readings above it. *)
BaseReading ==
    [cpu_percent |-> 50, load_15min |-> 3, temperature |-> 75,
     memory_percent |-> 85, disk_percent |-> 90, latency_ms |-> 100,
     packet_loss_percent |-> 5, failed_count |-> 0, failed_logins |-> 10,
     suspicious_ips |-> <<(<<"1.2.3.4", 25>>), (<<"5.6.7.8", 20>>)>>]

HighReading ==
    [load_15min |-> 4, temperature |-> 80, memory_percent |-> 90,
     disk_percent |-> 95, packet_loss_percent |-> 10, failed_count |-> 1,
     failed_logins |-> 60]

Elevated(fields) ==
    [f \in DOMAIN BaseReading |->
        IF f \in fields THEN HighReading[f] ELSE BaseReading[f]]

Readings ==
    {Elevated(fields) : fields \in {e \in SUBSET DOMAIN HighReading :
                                        Cardinality(e) <= MaxElevated}}

(* What the journal of the last hour may contain. *)
JournalScenes ==
    {[raspberry |-> {}, patterns |-> {}],
     [raspberry |-> {"temperature"}, patterns |-> {}],
     [raspberry |-> {"rng-tools"}, patterns |-> {"rng-tools", "orphan_inodes"}]}

(* A failed unit: its name and status text, the problematic patterns that
   occur in them, whether its logs report a YAML error, and how
   systemctl cat ends for it. *)
Unit(name, name_has, status, status_has, check) ==
    [name |-> name, name_has |-> name_has, status |-> status,
     status_has |-> status_has, check |-> check,
     cloudflared |-> name = "cloudflared.service",
     logs_yaml_error |-> name = "cloudflared.service"]

ServiceScenes ==
    {<<>>,
     <<Unit("rng-tools.service", {"rng-tools"}, "failed", {}, "valid")>>,
     <<Unit("nginx.service", {}, "Failed to start", {"failed-to-start"}, "valid"),
       Unit("myapp.service", {}, "failed", {}, "valid")>>,
     <<Unit("ghost.service", {}, "not-found", {}, "invalid")>>,
     <<Unit("myapp.service", {}, "failed", {}, "oserror")>>,
     <<Unit("cloudflared.service", {}, "failed", {}, "valid")>>}

(* What a handler meets: how its remediation commands end, the failed units
   and the running services. *)
Envs(action) ==
    {[outcome |-> o, services |-> sc, active |-> {"bluetooth"}] :
        o \in CmdOutcomes,
        sc \in IF action.action = "restart_failed_services"
               THEN ServiceScenes ELSE {<<>>}}

(* Rows of system_patterns a knowledge.db may hold when the doctor opens
   it: states the system was seen in, with the solution recorded for them. *)
LearnedRows ==
    LET Row(r, severity, solution) ==
            [pattern_hash |-> PatternHash(SystemPattern(Snapshot(0, r))),
             pattern_type |-> "system_state",
             pattern_data |-> SystemPattern(Snapshot(0, r)),
             first_seen |-> 0, last_seen |-> 0, occurrence_count |-> 3,
             severity |-> severity, confidence |-> 5, solution |-> solution,
             success_rate |-> 0]
    IN  <<Row(BaseReading, 5, "clear_cache"),
          Row(Elevated({"temperature"}), 8, "reboot_system"),
          Row(Elevated({"load_15min"}), 7, "clear_cache"),
          Row(Elevated({"disk_percent"}), 9, "")>>

Init ==
    /\ Quiet
    /\ now = 0
    /\ calls = <<>>
    /\ patterns \in {<<>>, LearnedRows}
    /\ actions_enabled \in {DefaultActions, LoadedActions}
(* collect_health_data() of a doctor whose health_data is `held`: the new
   snapshot (or the one of the except branch), and the metrics
   store_long_term_metrics stores for it; `cmds` are the commands the caller
   runs around it. *)
CollectHealthData(held, cmds, next_pc) ==
    /\ pc = "idle"
    /\ cycles < MaxCycles
    /\ \E h \in {Snapshot(now + 1, r) : r \in Readings} \cup {ErrorSnapshot(now + 1)} :
        /\ health_data' = h
        /\ IF h.kind = "full" /\ TablesExist
           THEN metrics' = StoredMetrics(metrics, h, now + 1) /\ tables' = tables
           ELSE metrics' = metrics
                /\ tables' = IF h.kind = "full" THEN RequiredTables ELSE tables
        /\ ret' = [op |-> "collect_health_data", value |-> h]
    /\ previous_health' = held
    /\ now' = now + 1
    /\ cycles' = cycles + 1
    /\ pc' = next_pc
    /\ recommended' = <<>>
    /\ cmd_log' = cmd_log \o cmds
    /\ UNCHANGED <<patterns, outcomes, actions_log, actions_enabled,
                   arg1, arg2, calls, ops>>

(* run_enhanced: collect_health_data() *)
Collect == CollectHealthData(health_data, <<>>, "detect")

(* detect_raspberry_specific_issues(), detect_journal_issues() and
   execute_autonomous_fixes(all_issues) *)
Detect ==
    /\ pc = "detect"
    /\ \E journal \in JournalScenes :
        LET all_issues == DetectedIssues(journal)
        IN  /\ patterns' = FixPatterns(all_issues, patterns, now)
            /\ tables' = IF all_issues # <<>> THEN RequiredTables ELSE tables
            /\ cmd_log' = cmd_log \o <<(<<"journalctl --since | tail -100", "">>),
                                       (<<"journalctl --since | tail -200", "">>)>>
                                  \o FixCommands(all_issues)
            /\ ret' = [op |-> "execute_autonomous_fixes", value |-> all_issues]
    /\ pc' = "analyze"
    /\ UNCHANGED <<now, outcomes, metrics, actions_log, health_data, previous_health,
                   actions_enabled, recommended, arg1, arg2, calls, ops, cycles>>

(* analyze_system_state(); on the snapshot of the except branch the first
   rule raises KeyError.  `loops` tells whether the caller goes on to
   execute the actions. *)
AnalyzeSystemState(at_pc, loops) ==
    /\ pc = at_pc
    /\ IF health_data.kind = "full"
       THEN \E actions \in {analyze_system_state(health_data, patterns, metrics, now)} :
                /\ recommended' = IF loops THEN actions ELSE <<>>
                /\ ret' = [op |-> "analyze_system_state", raised |-> FALSE,
                           value |-> actions]
                /\ pc' = IF actions = <<>> \/ ~loops THEN "idle" ELSE "execute"
                /\ cmd_log' = IF health_data.services.failed_count > 0
                              THEN Append(cmd_log, <<"systemctl --failed | tr", "">>)
                              ELSE cmd_log
       ELSE /\ recommended' = <<>>
            /\ ret' = [op |-> "analyze_system_state", raised |-> TRUE, value |-> <<>>]
            /\ pc' = "idle"
            /\ cmd_log' = cmd_log
    /\ tables' = RequiredTables
    /\ UNCHANGED <<now, patterns, outcomes, metrics, actions_log, health_data,
                   previous_health, actions_enabled, arg1, arg2, calls, ops, cycles>>

(* run_enhanced: analyze_system_state(); when it raises, run_enhanced ends. *)
Analyze == AnalyzeSystemState("analyze", TRUE)

(* execute_action(action) for the next action of the loop of run_enhanced *)
ExecuteAction ==
    /\ pc = "execute"
    /\ recommended # <<>>
    /\ LET action == Head(recommended)
       IN  /\ arg1' = action
           /\ IF GatePasses(action, actions_enabled)
              THEN \E env \in Envs(action) :
                    \E run \in {RunHandler(action, health_data, env, patterns, now)} :
                        /\ patterns' = run.patterns
                        /\ cmd_log' = cmd_log \o run.cmds
                        /\ actions_log' = Append(actions_log, LogLine(action, run, now))
                        /\ outcomes' = OutcomesAfter(outcomes, action, run,
                                                     health_data, now)
                        /\ tables' = RequiredTables
                        /\ ret' = [op |-> "execute_action", passed |-> TRUE,
                                   raised |-> run.raised,
                                   failed |-> run.remedy /\ env.outcome # "ok",
                                   value |-> ResultText(action, run)]
              ELSE /\ ret' = [op |-> "execute_action", passed |-> FALSE,
                              raised |-> FALSE, failed |-> FALSE,
                              value |-> <<"Action", action.action,
                                          "not enabled or not found">>]
                   /\ UNCHANGED <<patterns, cmd_log, actions_log, outcomes, tables>>
    /\ recommended' = Tail(recommended)
    /\ pc' = IF Tail(recommended) = <<>> THEN "idle" ELSE "execute"
    /\ UNCHANGED <<now, metrics, health_data, previous_health, actions_enabled,
                   arg2, calls, ops, cycles>>

Next == Collect \/ Detect \/ Analyze \/ ExecuteAction

Spec == Init /\ [][Next]_vars

-----------------------------------------------------------------------------
(* check_system_issues() of test_system_issues.py, run again and again on
   the same knowledge.db: each run makes a new AutonomousDoctor, collects
   and analyzes, and executes nothing. *)

(* Steps 1 and 2: the journal, collect_health_data(), the failed services
   and the disk health. *)
CheckCollect ==
    CollectHealthData(NoHealth,
                      <<(<<"journalctl -b | grep | tail -20", "">>),
                        (<<"systemctl --failed --no-legend", "">>),
                        (<<"smartctl -a /dev/mmcblk0 || true", "">>)>>,
                      "check")

(* Step 3: analyze_system_state(), whose actions are printed. *)
CheckAnalyze == AnalyzeSystemState("check", FALSE)

NextCheck == CheckCollect \/ CheckAnalyze

SpecCheck == Init /\ [][NextCheck]_vars
-----------------------------------------------------------------------------
(* Properties of execute_action *)

Last(rows) == rows[Len(rows)]

(* The step just taken was execute_action on arg1 (only ExecuteAction is
   enabled when pc = "execute"). *)
Executed == ret.op = "execute_action"

(* C2: an execute_action that passes the gate appends exactly one row to
   action_outcomes, with the hash of the current health_data, whether the
   handler returns or raises; when it raises the row has success = 0. *)
C2_OneOutcomePerExecution ==
    [][(pc = "execute" /\ ret'.op = "execute_action" /\ ret'.passed)
        => /\ Len(outcomes') = Len(outcomes) + 1
           /\ SubSeq(outcomes', 1, Len(outcomes)) = outcomes
           /\ Last(outcomes').action_type = arg1'.action
           /\ Last(outcomes').system_state_hash = StateHash(health_data')
           /\ (ret'.raised => Last(outcomes').success = 0)]_vars

C2_Witness ==
    /\ Executed /\ ret.passed /\ ret.raised
    /\ outcomes # <<>>
    /\ Last(outcomes).success = 0
    /\ Last(outcomes).system_state_hash = StateHash(health_data)

(* C3: the outcome recorded for an action whose remediation command timed
   out or exited with an error has success = 0, and a troubleshooting
   solution whose command failed is not reported as SUCCESS:. *)
C3_FailedCommandIsFailedOutcome ==
    (Executed /\ ret.passed /\ ret.failed)
        => /\ Last(outcomes).success = 0
           /\ \A i \in 1..Len(ret.value) : ret.value[i] # "SUCCESS:"

(* The toggle of the action is false in config['actions']. *)
ToggledOff(action, enabled) ==
    DictGetOr(enabled, AutoKey(action.action), "True") = "False"

(* C4: a handler runs only for an action that is in the dispatch table and
   whose toggle is not false; an action that is not in the table or whose
   toggle is false gets the text "Action <type> not enabled or not found",
   no command is run, and action_outcomes and the actions log stay as they
   are. *)
C4_GateSkipsWithoutEffect ==
    [][(pc = "execute" /\ ret'.op = "execute_action")
        => LET skipped == \/ arg1'.action \notin HandlerNames
                          \/ ToggledOff(arg1', actions_enabled)
           IN  /\ ret'.passed => ~skipped
               /\ skipped =>
                    /\ ret'.value = <<"Action", arg1'.action,
                                      "not enabled or not found">>
                    /\ cmd_log' = cmd_log
                    /\ outcomes' = outcomes
                    /\ actions_log' = actions_log]_vars

C4_Witness ==
    /\ Executed /\ ~ret.passed
    /\ arg1.action \in HandlerNames
    /\ ToggledOff(arg1, actions_enabled)
    /\ ret.value = <<"Action", arg1.action, "not enabled or not found">>

(* C8: an outcome recorded in a cycle that has a previous snapshot carries
   the improvement computed from the previous and the current snapshot. *)
C8_OutcomeCarriesImprovement ==
    (Executed /\ ret.passed /\ previous_health.kind = "full"
        /\ health_data.kind = "full")
        => Last(outcomes).improvement
              = calculate_improvement(previous_health, health_data)

-----------------------------------------------------------------------------
(* Properties of analyze_system_state *)

(* The step just taken was analyze_system_state, and it returned a list. *)
Analyzed == ret.op = "analyze_system_state" /\ ~ret.raised

OfPriority(actions, rank) ==
    SelectSeq(actions, LAMBDA a : PriorityRank(a.priority) = rank)

(* C5: the list analyze_system_state returns is the list it built (learned
   matches, threshold rules in table order, trend alerts) ordered by
   priority rank descending, actions of equal rank in the order in which
   they were built. *)
C5_SortedByPriorityStable ==
    Analyzed =>
        LET built == Candidates(health_data, patterns, metrics, now)
        IN  /\ \A i \in 1..Len(ret.value), j \in 1..Len(ret.value) :
                  i < j => PriorityRank(ret.value[i].priority)
                              >= PriorityRank(ret.value[j].priority)
            /\ ret.value = OfPriority(built, 3) \o OfPriority(built, 2)
                              \o OfPriority(built, 1) \o OfPriority(built, 0)

C5_Witness ==
    /\ Analyzed
    /\ \E i \in 1..Len(ret.value), j \in 1..Len(ret.value) :
          /\ i < j
          /\ ret.value[i].priority = ret.value[j].priority
          /\ ret.value[i].learned_pattern /\ ~ret.value[j].learned_pattern
    /\ ret.value # Candidates(health_data, patterns, metrics, now)

(* The threshold rules: the reading, its threshold, the action and its
   priority. *)
ThresholdRules(h) ==
    {<<h.cpu.temperature, 75, "throttle_cpu", "high">>,
     <<h.memory.percent, 85, "clear_cache", "medium">>,
     <<h.disk.percent, 90, "clean_logs", "high">>,
     <<h.cpu.load_15min, 3, "manage_services", "medium">>,
     <<h.services.failed_count, 0, "restart_failed_services", "medium">>,
     <<h.security.failed_logins, 10, "increase_security", "high">>,
     <<h.network.packet_loss_percent, 5, "optimize_network", "medium">>}

NoLearnedState == \A i \in 1..Len(patterns) : patterns[i].pattern_type # "system_state"

(* C6: analyze_system_state includes the action of a threshold rule, with
   the priority of the rule, whenever the reading is strictly greater than
   the threshold; and when no system_state pattern is stored it includes an
   action of that name only then. *)
C6_ThresholdRulesStrict ==
    Analyzed =>
        \A rule \in ThresholdRules(health_data) :
            /\ rule[1] > rule[2] =>
                  \E i \in 1..Len(ret.value) :
                      /\ ret.value[i].action = rule[3]
                      /\ ret.value[i].priority = rule[4]
                      /\ ~ret.value[i].learned_pattern
            /\ (NoLearnedState /\ \E i \in 1..Len(ret.value) :
                                      ret.value[i].action = rule[3])
                  => rule[1] > rule[2]

C6_Witness ==
    /\ Analyzed
    /\ NoLearnedState
    /\ health_data.cpu.temperature = 80
    /\ health_data.memory.percent = 85
    /\ \E i \in 1..Len(ret.value) :
          ret.value[i].action = "throttle_cpu" /\ ret.value[i].priority = "high"
    /\ \A i \in 1..Len(ret.value) : ret.value[i].action # "clear_cache"

(* C7: for each watched metric whose trend over the last TrendAnalysisHours
   is increasing with |slope| > 0.5, analyze_system_state emits an
   investigate_trend action for the metric at priority medium. *)
C7_IncreasingTrendAlerts ==
    Analyzed =>
        \A metric \in {"cpu_temperature", "memory_percent", "disk_percent", "load_15min"} :
            LET trend == get_metric_trend(metrics, metric, TrendAnalysisHours, now)
            IN  (/\ trend.found
                 /\ trend.trend = "increasing"
                 /\ RatLess(<<1, 2>>, Rat(Abs(trend.slope[1]), trend.slope[2])))
                => \E i \in 1..Len(ret.value) :
                      /\ ret.value[i].action = "investigate_trend"
                      /\ ret.value[i].target = metric
                      /\ ret.value[i].priority = "medium"
-----------------------------------------------------------------------------
(* The learned matches of the snapshot analyze_system_state has analysed:
   what get_similar_patterns returns for health_data without its timestamp
   and the type system_state. *)
LearnedMatches ==
    SimilarPatterns(patterns, SystemPattern(health_data), "system_state", <<4, 5>>)

LearnedPriority(match) == IF match.severity > 7 THEN "high" ELSE "medium"

Actionable(match) == RatLess(<<3, 4>>, match.similarity) /\ match.solution # ""

(* C12: after analyze_system_state, the recommended actions marked as learned
   are, one for one, the learned matches of the snapshot that are more than
   0.75 similar and have a non-empty solution: for every solution and
   priority there are as many learned actions as there are such matches with
   that solution and with severity above 0.7 (high) or not (medium); a match
   without a solution has no action. *)
C12_OneActionPerLearnedMatch ==
    Analyzed =>
        /\ \A a \in 1..Len(ret.value) :
                ret.value[a].learned_pattern =>
                    /\ ret.value[a].action # ""
                    /\ ret.value[a].priority \in {"high", "medium"}
        /\ \A solution \in {LearnedMatches[m].solution : m \in 1..Len(LearnedMatches)}
                            \cup {ret.value[a].action : a \in 1..Len(ret.value)},
              priority \in {"high", "medium"} :
                Cardinality({a \in 1..Len(ret.value) :
                                /\ ret.value[a].learned_pattern
                                /\ ret.value[a].action = solution
                                /\ ret.value[a].priority = priority})
                  = Cardinality({m \in 1..Len(LearnedMatches) :
                                /\ Actionable(LearnedMatches[m])
                                /\ LearnedMatches[m].solution = solution
                                /\ LearnedPriority(LearnedMatches[m]) = priority})

(* A snapshot with four learned matches: one of severity 0.8 (high), two with
   the same solution of which one has severity exactly 0.7 (medium), and one
   without a solution, which has no action. *)
C12_Witness ==
    /\ Analyzed
    /\ Len(LearnedMatches) = 4
    /\ \E m \in 1..4 : LearnedMatches[m].solution = ""
    /\ \E m \in 1..4 : LearnedMatches[m].severity = 7
    /\ Cardinality({a \in 1..Len(ret.value) : ret.value[a].learned_pattern}) = 3
    /\ \E a \in 1..Len(ret.value) :
            ret.value[a].learned_pattern /\ ret.value[a].priority = "high"
    /\ Cardinality({a \in 1..Len(ret.value) :
            /\ ret.value[a].learned_pattern /\ ret.value[a].action = "clear_cache"
            /\ ret.value[a].priority = "medium"}) = 2
-----------------------------------------------------------------------------
(* Metrics stored over two days and their trend: store_metric and
   get_metric_trend called as test_db.py calls them, while time passes. *)

MaxMetricOps == 4    \* store_metric calls
MaxHours == 36       \* the hours that pass

MetricNames == {"test_cpu", "cpu_temperature"}
MetricValues == {0, 1}
ElapseSteps == {12}
TrendWindows == {12, 24}
QueriedMetrics == {"test_cpu"}

InitTrend ==
    /\ Quiet
    /\ now = 0
    /\ calls = <<>>
    /\ patterns = <<>>
    /\ actions_enabled = <<>>

(* Time passes between two calls. *)
Elapse ==
    /\ \E hours \in ElapseSteps :
        /\ now + hours <= MaxHours
        /\ now' = now + hours
    /\ UNCHANGED <<tables, patterns, outcomes, metrics, actions_log, health_data,
                   previous_health, actions_enabled, recommended, pc, cmd_log,
                   ret, arg1, arg2, calls, ops, cycles>>

(* store_metric(metric_name, metric_value) *)
StoreMetric ==
    /\ ops < MaxMetricOps
    /\ \E metric_name \in MetricNames, metric_value \in MetricValues :
        /\ metrics' = Append(metrics, [metric_name |-> metric_name,
                                       metric_value |-> metric_value,
                                       timestamp |-> now])
        /\ arg1' = [metric_name |-> metric_name, metric_value |-> metric_value]
        /\ ret' = [op |-> "store_metric", value |-> TRUE]
    /\ ops' = ops + 1
    /\ UNCHANGED <<now, tables, patterns, outcomes, actions_log, health_data,
                   previous_health, actions_enabled, recommended, pc, cmd_log,
                   arg2, calls, cycles>>

(* get_metric_trend(metric_name, hours) *)
GetMetricTrend ==
    /\ \E metric_name \in QueriedMetrics, hours \in TrendWindows :
        /\ arg1' = [metric_name |-> metric_name, hours |-> hours, at |-> now]
        /\ ret' = [op |-> "get_metric_trend",
                   value |-> get_metric_trend(metrics, metric_name, hours, now)]
    /\ UNCHANGED <<now, tables, patterns, outcomes, metrics, actions_log, health_data,
                   previous_health, actions_enabled, recommended, pc, cmd_log,
                   arg2, calls, ops, cycles>>

NextTrend == Elapse \/ StoreMetric \/ GetMetricTrend

SpecTrend == InitTrend /\ [][NextTrend]_vars

(* The stored samples of the queried metric that lie inside the window of
   the last get_metric_trend: taken later than arg1.hours hours before the
   call, which was made at arg1.at. *)
SamplesInWindow ==
    {i \in 1..Len(metrics) :
        /\ metrics[i].metric_name = arg1.metric_name
        /\ metrics[i].timestamp > arg1.at - arg1.hours}

(* C13: get_metric_trend returns None when fewer than two samples of the
   metric lie inside the window and a trend record when at least two do;
   samples of other metrics and samples older than the window do not count. *)
C13_TrendIffTwoSamplesInWindow ==
    ret.op = "get_metric_trend" =>
        (ret.value.found <=> Cardinality(SamplesInWindow) >= 2)

(* The samples the SELECT of the last get_metric_trend has returned. *)
SamplesSelected ==
    SelectSeq(metrics, LAMBDA r :
        r.metric_name = arg1.metric_name
        /\ NewerThan(r.timestamp, arg1.at - arg1.hours))

SelectedValues == [i \in 1..Len(SamplesSelected) |-> SamplesSelected[i].metric_value]

(* slope is the least-squares slope of the values against 0, 1, 2, ...: it
   solves the normal equation of the fit. *)
IsLeastSquaresSlope(slope, values) ==
    LET n == Len(values)
        sx == SumSeq([i \in 1..n |-> i - 1])
        sy == SumSeq(values)
        sxy == SumSeq([i \in 1..n |-> (i - 1) * values[i]])
        sxx == SumSeq([i \in 1..n |-> (i - 1) * (i - 1)])
    IN  slope[1] * (n * sxx - sx * sx) = slope[2] * (n * sxy - sx * sy)

(* C14: in a trend record the slope is the least-squares slope of the
   selected values against their index; the trend is increasing exactly when
   the slope is above 0.1, decreasing exactly when it is below -0.1 and
   stable otherwise; current is the last selected sample, min and max the
   smallest and the largest, average their mean. *)
C14_TrendRecord ==
    (ret.op = "get_metric_trend" /\ ret.value.found) =>
        LET r == ret.value
            n == Len(SelectedValues)
        IN  /\ r.values = SelectedValues
            /\ IsLeastSquaresSlope(r.slope, r.values)
            /\ r.trend = "increasing" <=> RatLess(<<1, 10>>, r.slope)
            /\ r.trend = "decreasing" <=> RatLess(r.slope, <<-1, 10>>)
            /\ r.trend = "stable" <=> (RatLeq(r.slope, <<1, 10>>) /\ RatLeq(<<-1, 10>>, r.slope))
            /\ r.current = SelectedValues[n]
            /\ \A i \in 1..n : r.min <= SelectedValues[i] /\ SelectedValues[i] <= r.max
            /\ \E i \in 1..n : r.min = SelectedValues[i]
            /\ \E i \in 1..n : r.max = SelectedValues[i]
            /\ r.average[1] * n = r.average[2] * SumSeq(SelectedValues)

(* A trend over four samples whose slope is exactly 0.1, reported stable,
   with a last sample that is neither the only minimum nor the maximum. *)
C14_Witness ==
    /\ ret.op = "get_metric_trend" /\ ret.value.found
    /\ Len(ret.value.values) = 4
    /\ ret.value.slope = <<1, 10>>
    /\ ret.value.trend = "stable"
    /\ ret.value.min = 0 /\ ret.value.max = 1 /\ ret.value.current = 0
    /\ ret.value.average = <<1, 4>>
-----------------------------------------------------------------------------
(* The operations of KnowledgeBase on a database whose tables may be removed
   from outside between two calls. *)

MaxKbOps == 4        \* operations of the KnowledgeBase made

(* An init_db that fails before it creates a table. *)
init_db_failing(existing) == existing

(* init_db(): CREATE TABLE IF NOT EXISTS for each required table. *)
init_db(existing) == existing \cup RequiredTables

(* ensure_tables_exist(): the tables afterwards; it calls init_db when one
   is missing. *)
TablesAfterEnsure(existing) ==
    IF RequiredTables \subseteq existing THEN existing ELSE init_db(existing)

(* The INSERT of store_metric that also removes the older rows of the metric. *)
InsertMetricKeepLatest(rows, metric_name, metric_value, timestamp) ==
    Append(SelectSeq(rows, LAMBDA r : r.metric_name # metric_name),
           [metric_name |-> metric_name, metric_value |-> metric_value,
            timestamp |-> timestamp])

(* The INSERT of store_metric. *)
InsertMetric(rows, metric_name, metric_value, timestamp) ==
    Append(rows, [metric_name |-> metric_name, metric_value |-> metric_value,
                  timestamp |-> timestamp])

(* The INSERT of store_action_outcome; success is stored as 1 or 0. *)
InsertOutcome(rows, action_type, target, success, improvement, timestamp) ==
    Append(rows, [action_type |-> action_type, target |-> target,
                  reason |-> "reason", result |-> <<"result">>,
                  success |-> IF success THEN 1 ELSE 0, timestamp |-> timestamp,
                  system_state_hash |-> "", improvement |-> improvement])

RECURSIVE RatSum(_)
RatSum(rats) ==
    IF rats = <<>> THEN Zero ELSE RatAdd(Head(rats), RatSum(Tail(rats)))

(* The result of get_action_success_rate when nothing matches or a table is
   missing. *)
NeutralRate == [count |-> 0, success_rate |-> <<1, 2>>, avg_improvement |-> Zero]

(* The COUNT, AVG(success) and AVG(improvement) of the selected rows. *)
RateOf(matching) ==
    IF Len(matching) > 0
    THEN [count |-> Len(matching),
          success_rate |-> Rat(SumSeq([i \in 1..Len(matching) |-> matching[i].success]),
                               Len(matching)),
          avg_improvement |->
              LET total == RatSum([i \in 1..Len(matching) |-> matching[i].improvement])
              IN  Rat(total[1], total[2] * Len(matching))]
    ELSE NeutralRate

(* get_action_success_rate that compares the target even when none is given. *)
get_action_success_rate_any_target(rows, action_type, target) ==
    RateOf(SelectSeq(rows, LAMBDA r :
                r.action_type = action_type /\ r.target = target))

(* get_action_success_rate(action_type, target) on the rows of
   action_outcomes; an empty target is no target. *)
get_action_success_rate(rows, action_type, target) ==
    RateOf(SelectSeq(rows, LAMBDA r :
                /\ r.action_type = action_type
                /\ (target # "" => r.target = target)))

(* The outcomes stored and the rates asked for. *)
OutcomeCalls ==
    {[action_type |-> "restart_service", target |-> "nginx", success |-> TRUE,
      improvement |-> One],
     [action_type |-> "restart_service", target |-> "ssh", success |-> FALSE,
      improvement |-> Zero],
     [action_type |-> "clear_cache", target |-> "", success |-> TRUE,
      improvement |-> Zero]}

RateQueries ==
    {[action_type |-> "restart_service", target |-> ""],
     [action_type |-> "restart_service", target |-> "nginx"],
     [action_type |-> "reboot_system", target |-> ""]}

InitKb ==
    /\ Quiet
    /\ now = 0
    /\ calls = <<>>
    /\ patterns = <<>>
    /\ actions_enabled = <<>>

(* What an operation of KnowledgeBase leaves alone, and the bookkeeping of
   the call: the time of the call, the result of the call before it. *)
KbCall ==
    /\ ops < MaxKbOps
    /\ ops' = ops + 1
    /\ now' = now + 1
    /\ arg2' = ret
    /\ tables' = TablesAfterEnsure(tables)
    /\ UNCHANGED <<actions_log, health_data, previous_health, actions_enabled,
                   recommended, pc, cmd_log, calls, cycles>>

(* A table disappears from the database file. *)
DropTable ==
    /\ \E t \in tables :
        /\ tables' = tables \ {t}
        /\ patterns' = IF t = "system_patterns" THEN <<>> ELSE patterns
        /\ outcomes' = IF t = "action_outcomes" THEN <<>> ELSE outcomes
        /\ metrics' = IF t = "long_term_metrics" THEN <<>> ELSE metrics
    /\ ret' = NoValue
    /\ arg2' = ret
    /\ UNCHANGED <<now, actions_log, health_data, previous_health, actions_enabled,
                   recommended, pc, cmd_log, arg1, calls, ops, cycles>>

(* store_pattern('service_logs', pattern_data, severity=0.3) *)
KbStorePattern ==
    /\ KbCall
    /\ arg1' = [pattern_data |-> DataAB]
    /\ IF TablesExist
       THEN /\ patterns' = UpsertPattern(patterns, now, "service_logs", DataAB, 3, 5, "")
            /\ ret' = [op |-> "store_pattern", missing |-> FALSE, value |-> TRUE]
       ELSE /\ patterns' = patterns
            /\ ret' = [op |-> "store_pattern", missing |-> TRUE, value |-> FALSE]
    /\ UNCHANGED <<outcomes, metrics>>

(* store_metric(metric_name, metric_value) *)
KbStoreMetric ==
    /\ KbCall
    /\ arg1' = [metric_name |-> "test_cpu", metric_value |-> 1]
    /\ IF TablesExist
       THEN /\ metrics' = InsertMetric(metrics, "test_cpu", 1, now)
            /\ ret' = [op |-> "store_metric", missing |-> FALSE, value |-> TRUE]
       ELSE /\ metrics' = metrics
            /\ ret' = [op |-> "store_metric", missing |-> TRUE, value |-> FALSE]
    /\ UNCHANGED <<patterns, outcomes>>

(* store_action_outcome(action_type, target, reason, result, success,
   system_state_hash, improvement) *)
KbStoreActionOutcome ==
    /\ KbCall
    /\ \E c \in OutcomeCalls :
        /\ arg1' = c
        /\ IF TablesExist
           THEN /\ outcomes' = InsertOutcome(outcomes, c.action_type, c.target,
                                             c.success, c.improvement, now)
                /\ ret' = [op |-> "store_action_outcome", missing |-> FALSE,
                           value |-> TRUE]
           ELSE /\ outcomes' = outcomes
                /\ ret' = [op |-> "store_action_outcome", missing |-> TRUE,
                           value |-> FALSE]
    /\ UNCHANGED <<patterns, metrics>>

(* get_similar_patterns(pattern_data) *)
KbGetSimilarPatterns ==
    /\ KbCall
    /\ arg1' = [pattern_data |-> DataAB, pattern_type |-> "", threshold |-> <<4, 5>>]
    /\ ret' = [op |-> "get_similar_patterns", missing |-> ~TablesExist,
               value |-> IF TablesExist
                         THEN SimilarPatterns(patterns, DataAB, "", <<4, 5>>)
                         ELSE <<>>]
    /\ UNCHANGED <<patterns, outcomes, metrics>>

(* get_action_success_rate(action_type, target) *)
KbGetActionSuccessRate ==
    /\ KbCall
    /\ \E q \in RateQueries :
        /\ arg1' = q
        /\ ret' = [op |-> "get_action_success_rate", missing |-> ~TablesExist,
                   value |-> IF TablesExist
                             THEN get_action_success_rate(outcomes, q.action_type,
                                                          q.target)
                             ELSE NeutralRate]
    /\ UNCHANGED <<patterns, outcomes, metrics>>

(* get_metric_trend(metric_name) with the default of 24 hours *)
KbGetMetricTrend ==
    /\ KbCall
    /\ arg1' = [metric_name |-> "test_cpu", hours |-> 24, at |-> now]
    /\ ret' = [op |-> "get_metric_trend", missing |-> ~TablesExist,
               value |-> IF TablesExist
                         THEN get_metric_trend(metrics, "test_cpu", 24, now)
                         ELSE NoTrend]
    /\ UNCHANGED <<patterns, outcomes, metrics>>

NextKb ==
    \/ DropTable
    \/ KbStorePattern
    \/ KbStoreMetric
    \/ KbStoreActionOutcome
    \/ KbGetSimilarPatterns
    \/ KbGetActionSuccessRate
    \/ KbGetMetricTrend

SpecKb == InitKb /\ [][NextKb]_vars

(* The recorded outcomes the last get_action_success_rate asked about: those
   of the action type and, when a target is given, of that target. *)
MatchingOutcomes ==
    {i \in 1..Len(outcomes) :
        /\ outcomes[i].action_type = arg1.action_type
        /\ (arg1.target # "" => outcomes[i].target = arg1.target)}

(* C15: get_action_success_rate returns count 0, success rate 0.5 and
   average improvement 0 when no outcome is recorded for the type (and the
   target, when one is given) or a table is missing; otherwise count is the
   number of matching outcomes and success_rate the fraction of them that
   were stored with success = true. *)
C15_SuccessRate ==
    ret.op = "get_action_success_rate" =>
        IF ret.missing \/ MatchingOutcomes = {}
        THEN ret.value = [count |-> 0, success_rate |-> <<1, 2>>,
                          avg_improvement |-> <<0, 1>>]
        ELSE /\ ret.value.count = Cardinality(MatchingOutcomes)
             /\ ret.value.success_rate[1] * Cardinality(MatchingOutcomes)
                  = ret.value.success_rate[2]
                      * Cardinality({i \in MatchingOutcomes : outcomes[i].success = 1})

(* The rate of restart_service over all targets: two outcomes, one of them a
   success, while an outcome of another action type is recorded too. *)
C15_Witness ==
    /\ ret.op = "get_action_success_rate" /\ ~ret.missing
    /\ arg1.action_type = "restart_service" /\ arg1.target = ""
    /\ Len(outcomes) = 3
    /\ ret.value.count = 2
    /\ ret.value.success_rate = <<1, 2>>
    /\ ret.value.avg_improvement = <<1, 2>>

IsPrefix(rows1, rows2) ==
    /\ Len(rows1) <= Len(rows2)
    /\ \A i \in 1..Len(rows1) : rows2[i] = rows1[i]

(* C16: a step that removes no table (every operation of the knowledge
   base, the re-creation of the schema included) leaves each row of
   action_outcomes and of long_term_metrics as it is, and leaves each row of
   system_patterns with an occurrence_count that is at least 1 and not
   smaller than before. *)
C16_RecordsOnlyAppended ==
    [][tables \subseteq tables' =>
        /\ IsPrefix(outcomes, outcomes')
        /\ IsPrefix(metrics, metrics')
        /\ Len(patterns) <= Len(patterns')
        /\ \A i \in 1..Len(patterns) :
            /\ patterns'[i].pattern_hash = patterns[i].pattern_hash
            /\ patterns'[i].occurrence_count >= patterns[i].occurrence_count
        /\ \A i \in 1..Len(patterns') : patterns'[i].occurrence_count >= 1]_vars

(* The schema has just been re-created by a store_pattern that found a
   table missing while outcomes and metrics were on record, two metrics
   among them. *)
C16_Witness ==
    /\ ret.op = "store_pattern" /\ ret.missing
    /\ tables = RequiredTables
    /\ Len(outcomes) >= 1
    /\ Len(metrics) >= 2

(* What an operation returns when a table is missing. *)
Sentinel(op) ==
    IF op \in {"store_pattern", "store_metric", "store_action_outcome"} THEN FALSE
    ELSE IF op = "get_similar_patterns" THEN <<>>
    ELSE IF op = "get_metric_trend" THEN [found |-> FALSE]
    ELSE [count |-> 0, success_rate |-> <<1, 2>>, avg_improvement |-> <<0, 1>>]

(* C17: an operation of the knowledge base that finds a required table
   missing re-creates all tables, changes no row and returns its sentinel
   (False, [], None or the neutral rate); an operation that finds all tables
   does not, and a store operation then returns True.  So the operation that
   follows one that found a table missing succeeds. *)
C17_MissingTableReinit ==
    [][ops' = ops + 1 =>
        IF RequiredTables \subseteq tables
        THEN /\ ~ret'.missing
             /\ ret'.op \in {"store_pattern", "store_metric", "store_action_outcome"}
                    => ret'.value = TRUE
        ELSE /\ ret'.missing
             /\ ret'.value = Sentinel(ret'.op)
             /\ tables' = RequiredTables
             /\ patterns' = patterns /\ outcomes' = outcomes /\ metrics' = metrics]_vars

(* A store_metric that succeeded right after a get_metric_trend that had
   found a table missing and returned None. *)
C17_Witness ==
    /\ ops >= 2
    /\ arg2.op = "get_metric_trend" /\ arg2.missing /\ ~arg2.value.found
    /\ ret.op = "store_metric" /\ ~ret.missing /\ ret.value = TRUE
    /\ metrics # <<>>
-----------------------------------------------------------------------------
(* store_pattern called by two cycles at once: the loop of doctor_service.py
   and the worker thread of run_doctor_async in app.py, each with its own
   connection to knowledge.db.  Each call first reads (SELECT) and then
   writes (UPDATE or INSERT, and commit); SQLite runs each statement on the
   committed rows, and the calls interleave between the two statements.
   Here pc, arg1 and arg2 hold one value per caller: where the call is, what
   its SELECT has found, and the data it stores. *)

MaxRaceCalls == 3    \* store_pattern calls of the two callers together

Callers == {"loop", "worker"}

RaceData == {DataAB, DataNested}

(* cursor.fetchone() of the SELECT of store_pattern: whether a row with the
   hash of the data exists. *)
SelectExisting(rows, pattern_data) ==
    \E i \in 1..Len(rows) : rows[i].pattern_hash = PatternHash(pattern_data)

(* A write whose INSERT replaces the row that another call has inserted in
   the meantime. *)
WritePatternReplacing(rows, existing, timestamp, pattern_type, pattern_data) ==
    [rows |-> IF existing
              THEN UpsertPattern(rows, timestamp, pattern_type, pattern_data, 5, 5, "")
              ELSE UpsertPattern(
                      SelectSeq(rows, LAMBDA r :
                          r.pattern_hash # PatternHash(pattern_data)),
                      timestamp, pattern_type, pattern_data, 5, 5, ""),
     value |-> TRUE]

(* The write of store_pattern after its SELECT has found `existing`: the
   UPDATE with occurrence_count = occurrence_count + 1 when a row had been
   found; else the INSERT, which fails on the UNIQUE pattern_hash when a row
   has appeared since, and store_pattern then returns False. *)
WritePattern(rows, existing, timestamp, pattern_type, pattern_data) ==
    IF existing \/ ~SelectExisting(rows, pattern_data)
    THEN [rows |-> UpsertPattern(rows, timestamp, pattern_type, pattern_data, 5, 5, ""),
          value |-> TRUE]
    ELSE [rows |-> rows, value |-> FALSE]

InitRace ==
    /\ tables = RequiredTables
    /\ patterns = <<>> /\ outcomes = <<>> /\ metrics = <<>> /\ actions_log = <<>>
    /\ health_data = [kind |-> "empty"] /\ previous_health = [kind |-> "empty"]
    /\ actions_enabled = <<>> /\ recommended = <<>> /\ cmd_log = <<>>
    /\ ret = NoValue /\ calls = <<>>
    /\ now = 0 /\ ops = 0 /\ cycles = 0
    /\ pc = [p \in Callers |-> "idle"]
    /\ arg1 = [p \in Callers |-> FALSE]
    /\ arg2 = [p \in Callers |-> <<>>]

(* store_pattern up to and including its SELECT *)
SelectPattern(p) ==
    /\ pc[p] = "idle"
    /\ ops < MaxRaceCalls
    /\ \E pattern_data \in RaceData :
        /\ arg2' = [arg2 EXCEPT ![p] = pattern_data]
        /\ arg1' = [arg1 EXCEPT ![p] = SelectExisting(patterns, pattern_data)]
    /\ pc' = [pc EXCEPT ![p] = "write"]
    /\ ops' = ops + 1
    /\ UNCHANGED <<now, tables, patterns, outcomes, metrics, actions_log, health_data,
                   previous_health, actions_enabled, recommended, cmd_log, ret,
                   calls, cycles>>

(* store_pattern from its UPDATE or INSERT to its return *)
CommitPattern(p) ==
    /\ pc[p] = "write"
    /\ \E written \in {WritePattern(patterns, arg1[p], now, "raspberry_issue", arg2[p])} :
        /\ patterns' = written.rows
        /\ ret' = [op |-> "store_pattern", caller |-> p, value |-> written.value]
        /\ calls' = Append(calls, [hash |-> PatternHash(arg2[p]), caller |-> p,
                                   value |-> written.value])
    /\ pc' = [pc EXCEPT ![p] = "idle"]
    /\ now' = now + 1
    /\ UNCHANGED <<tables, outcomes, metrics, actions_log, health_data,
                   previous_health, actions_enabled, recommended, cmd_log,
                   arg1, arg2, ops, cycles>>

NextRace == \E p \in Callers : SelectPattern(p) \/ CommitPattern(p)

SpecRace == InitRace /\ [][NextRace]_vars

(* The store_pattern calls that have returned, for a hash. *)
CallsFor(hash) == {c \in 1..Len(calls) : calls[c].hash = hash}

CountOf(hash) ==
    LET rows == {i \in 1..Len(patterns) : patterns[i].pattern_hash = hash}
    IN  IF rows = {} THEN 0 ELSE patterns[CHOOSE i \in rows : TRUE].occurrence_count

(* C18: two callers of store_pattern race between SELECT and write.  The
   occurrence_count of a hash never exceeds the number of calls made for it
   and counts exactly the calls that returned True; a call that finds no row
   and then loses the INSERT to the other caller returns False and is not
   counted, so that a state with occurrence_count smaller than the number of
   calls is reached (C18_Witness). *)
C18_CountIsSuccessfulCalls ==
    \A hash \in {PatternHash(d) : d \in RaceData} :
        /\ Cardinality({i \in 1..Len(patterns) : patterns[i].pattern_hash = hash}) <= 1
        /\ CountOf(hash) = Cardinality({c \in CallsFor(hash) : calls[c].value})
        /\ CountOf(hash) <= Cardinality(CallsFor(hash))

(* Both callers have stored the same data once and have returned, and the
   pattern's occurrence_count is 1. *)
C18_Witness ==
    \E hash \in {PatternHash(d) : d \in RaceData} :
        /\ \A p \in Callers : pc[p] = "idle"
        /\ \A p \in Callers : \E c \in CallsFor(hash) : calls[c].caller = p
        /\ Cardinality(CallsFor(hash)) = 2
        /\ CountOf(hash) = 1
-----------------------------------------------------------------------------
(* main() of doctor_service.py: run_enhanced() again and again, with a
   sleep of 300 seconds after a cycle that returned and of 60 seconds after
   one that raised.  ret tells where the loop is between two cycles. *)

(* The except branch of the loop when it does not catch what the cycle
   raises: the exception ends main(). *)
AfterCycleUncaught(raised) ==
    IF raised THEN [op |-> "exit", seconds |-> 0]
    ELSE [op |-> "sleep", seconds |-> 300]

(* What the loop does after run_enhanced(): time.sleep(300) when it has
   returned, time.sleep(60) in the except branch when it has raised. *)
AfterCycle(raised) ==
    [op |-> "sleep", seconds |-> IF raised THEN 60 ELSE 300]

(* The doctor of doctor_service.py on a knowledge.db with one learned state. *)
InitService ==
    /\ Quiet
    /\ now = 0
    /\ calls = <<>>
    /\ patterns = SubSeq(LearnedRows, 1, 1)
    /\ actions_enabled = DefaultActions

(* run_enhanced() leaves analyze_system_state's exception to its caller. *)
CycleRaised == ret.op = "analyze_system_state" /\ ret.raised

(* The loop is in main() between two cycles: before the first one or in
   time.sleep. *)
Sleeping == pc = "idle" /\ ret.op \in {"none", "sleep"}

(* The loop calls doctor.run_enhanced(), which starts with
   collect_health_data(). *)
RunCycle == Sleeping /\ Collect

(* run_enhanced() has returned or raised; the loop goes to sleep. *)
SleepAfterCycle ==
    /\ pc = "idle"
    /\ ret.op \notin {"none", "sleep", "exit"}
    /\ ret' = AfterCycle(CycleRaised)
    /\ UNCHANGED <<now, tables, patterns, outcomes, metrics, actions_log, health_data,
                   previous_health, actions_enabled, recommended, pc, cmd_log,
                   arg1, arg2, calls, ops, cycles>>

(* knowledge.db loses its tables in the first cycle, before the cycle
   executes its actions; the outcome that log_action stores next is not
   stored. *)
DatabaseLost ==
    /\ pc = "execute"
    /\ ret.op = "analyze_system_state"
    /\ cycles = 1
    /\ TablesExist
    /\ tables' = {}
    /\ patterns' = <<>> /\ outcomes' = <<>> /\ metrics' = <<>>
    /\ UNCHANGED <<now, actions_log, health_data, previous_health, actions_enabled,
                   recommended, pc, cmd_log, ret, arg1, arg2, calls, ops, cycles>>

NextService ==
    \/ RunCycle
    \/ Detect
    \/ Analyze
    \/ ExecuteAction
    \/ SleepAfterCycle
    \/ DatabaseLost

SpecService == InitService /\ [][NextService]_vars

(* Weak fairness of Analyze, WF_vars(Analyze), with ENABLED <<Analyze>>_vars
   written out: Analyze can be taken exactly when pc = "analyze", and it
   changes pc. *)
FairAnalyze == []<>(pc # "analyze") \/ []<><<Analyze>>_vars

(* The loop is the only thread of its process, every command it runs has a
   timeout of 30 seconds and each sleep ends: a step of the loop that can be
   taken is taken. *)
FairService ==
    /\ SpecService
    /\ WF_vars(RunCycle)
    /\ WF_vars(Detect)
    /\ FairAnalyze
    /\ WF_vars(ExecuteAction)
    /\ WF_vars(SleepAfterCycle)

(* execute_action has just returned for an action whose handler raised or
   whose command ended with an error. *)
ExecFailed == ret.op = "execute_action" /\ (ret.raised \/ ret.failed)

(* Something has failed in the cycle that runs: collect_health_data took its
   except branch, analyze_system_state raised, an action failed, or the
   database has lost its tables so that the next store fails. *)
CycleFailure ==
    \/ ret.op = "collect_health_data" /\ ret.value.kind = "error"
    \/ CycleRaised
    \/ ExecFailed
    \/ pc # "idle" /\ ~TablesExist

(* C19: execute_action returns to the loop of run_enhanced whatever the
   handler does, and the loop goes on with the next recommended action: each
   step of the loop takes exactly the first action off the list and stays in
   the loop while the list is not empty, and after an action that fails with
   others left the list is worked off; and a cycle in which collecting,
   deciding, executing or storing has failed is followed by the next cycle
   of the loop of doctor_service.py (up to the MaxCycles cycles of the
   model). *)
C19_FailuresDoNotStopTheLoop ==
    /\ [][(pc = "execute" /\ recommended' # recommended) =>
            /\ ret'.op = "execute_action"
            /\ recommended' = Tail(recommended)
            /\ pc' = IF recommended' = <<>> THEN "idle" ELSE "execute"
            /\ cycles' = cycles]_vars
    /\ (ExecFailed /\ pc = "execute") ~> (pc = "idle")
    /\ \A k \in 1..(MaxCycles - 1) :
            (CycleFailure /\ cycles = k) ~> (cycles = k + 1)

(* The second cycle has begun after a first one in which an action had
   ended with an error and the action after it was executed all the same. *)
C19_Witness ==
    /\ cycles = 2
    /\ pc = "detect"
    /\ \E i \in 1..Len(actions_log), j \in 1..Len(actions_log) :
        /\ i < j
        /\ actions_log[i].at = 1 /\ actions_log[j].at = 1
        /\ Head(actions_log[i].result) = "ERROR:"
-----------------------------------------------------------------------------
(* The service and the signals that stop it.  doctor_service.py installs no
   signal handler and keeps no stop flag: SIGTERM ends the process where it
   is, SIGINT raises KeyboardInterrupt in the loop's thread.  arg2 holds
   the signal once one has been raised. *)

StopSignals == {"SIGTERM", "SIGINT"}

(* The doctor of doctor_service.py on a new knowledge.db. *)
InitShutdown ==
    /\ Quiet
    /\ now = 0
    /\ calls = <<>>
    /\ patterns = <<>>
    /\ actions_enabled = DefaultActions

(* A signal arrives while the loop sleeps or a cycle is between two of its
   steps.  SIGTERM kills the process; KeyboardInterrupt is not an
   Exception, so neither run_command nor execute_action nor the except
   branch of the loop catches it, and main() ends. *)
StopSignal ==
    /\ arg2 = <<>>
    /\ pc # "exited"
    /\ \E signal \in StopSignals : arg2' = <<signal>>
    /\ pc' = "exited"
    /\ UNCHANGED <<now, tables, patterns, outcomes, metrics, actions_log, health_data,
                   previous_health, actions_enabled, recommended, cmd_log, ret,
                   arg1, calls, ops, cycles>>

(* The loop starts a cycle and SIGINT arrives while collect_health_data is in
   measure_packet_loss, waiting for ping -c 10: the bare except of
   measure_packet_loss catches the KeyboardInterrupt and returns 0.0, and
   the cycle goes on. *)
RunCycleInterrupted ==
    /\ Sleeping
    /\ arg2 = <<>>
    /\ cycles < MaxCycles
    /\ \E r \in Readings :
        \E h \in {Snapshot(now + 1, [r EXCEPT !.packet_loss_percent = 0])} :
            /\ health_data' = h
            /\ IF TablesExist
               THEN metrics' = StoredMetrics(metrics, h, now + 1) /\ tables' = tables
               ELSE metrics' = metrics /\ tables' = RequiredTables
            /\ ret' = [op |-> "collect_health_data", value |-> h]
    /\ arg2' = <<"SIGINT">>
    /\ previous_health' = health_data
    /\ now' = now + 1
    /\ cycles' = cycles + 1
    /\ pc' = "detect"
    /\ recommended' = <<>>
    /\ UNCHANGED <<patterns, outcomes, actions_log, actions_enabled, cmd_log,
                   arg1, calls, ops>>

NextShutdown ==
    \/ RunCycle
    \/ RunCycleInterrupted
    \/ Detect
    \/ Analyze
    \/ ExecuteAction
    \/ SleepAfterCycle
    \/ StopSignal

SpecShutdown == InitShutdown /\ [][NextShutdown]_vars

(* C20: once a stop signal has been raised the loop starts no further cycle,
   and a stop signal raised while the loop sleeps ends the sleep and the
   loop at once. *)
C20_GracefulShutdown ==
    [][/\ arg2 # <<>> => cycles' = cycles
       /\ (Sleeping /\ arg2 = <<>> /\ arg2' # <<>> /\ cycles' = cycles)
            => pc' = "exited"]_vars
-----------------------------------------------------------------------------
(* The AI collaborator (src/ollama_client.py): a health check, then one
   generate request sent through safe_ollama_request.  calls is the list of
   the attempts of the present call, ops the attempt index of
   safe_ollama_request, arg1 the caller, arg2 the time at which
   wait_for_ollama started. *)

MaxAiCalls == 1      \* calls to the collaborator in one run

max_retries == 2
BackoffSeconds == 5
HealthTimeout == 10
max_wait == 60

(* The functions that call safe_ollama_request, with the timeout each passes,
   whether an unhealthy server is waited for (summarize_text) and what the
   caller gets when the request could not be made. *)
AiCallers == {"ask_ollama_for_action", "consult_ai_for_service_issue", "analyze_network_logs"}

RequestTimeout(caller) == IF caller = "analyze_network_logs" THEN 60 ELSE 120

WaitsForOllama(caller) == caller = "ask_ollama_for_action"

(* What requests.post / raise_for_status / response.json() do in one attempt,
   and what requests.get does in check_ollama_health. *)
RequestOutcomes == {"ok", "ConnectionError", "Timeout", "RequestException"}
HealthOutcomes == {"200", "503", "ConnectionError", "Timeout", "RequestException"}
Bodies == {"json", "prose"}

(* An attempt that times out lasts the timeout, any other a second. *)
Duration(caller, outcome) == IF outcome = "Timeout" THEN RequestTimeout(caller) ELSE 1

(* safe_ollama_request, one pass of its for loop: the response is returned,
   the exception is raised again on the last attempt, or the loop sleeps and
   goes round. *)
AfterAttemptForever(attempt, outcome) ==
    IF outcome = "ok" THEN "return" ELSE "retry"

AfterAttempt(attempt, outcome) ==
    IF outcome = "ok" THEN "return"
    ELSE IF attempt = max_retries THEN "raise"
    ELSE "retry"

(* What the caller returns when the server is not healthy or when
   safe_ollama_request raised (its except Exception branch): doctor.py fails
   to parse the text of summarize_text and returns the action none. *)
Unavailable(caller, why) ==
    CASE caller = "ask_ollama_for_action" ->
            [action |-> "none", reason |-> "failed to parse Ollama response"]
      [] caller = "consult_ai_for_service_issue" ->
            [solution |-> "investigate", confidence |-> "low", reason |-> why]
      [] caller = "analyze_network_logs" ->
            <<"Network analysis unavailable:", why>>

(* What the caller makes of the response of a successful attempt. *)
Answer(caller, body) ==
    CASE caller = "ask_ollama_for_action" ->
            IF body = "json" THEN [action |-> "clear_cache", reason |-> "high memory usage"]
            ELSE [action |-> "none", reason |-> "failed to parse Ollama response"]
      [] caller = "consult_ai_for_service_issue" ->
            IF body = "json" THEN [solution |-> "restart", confidence |-> "high", reason |-> "json"]
            ELSE [solution |-> "investigate", confidence |-> "low",
                  reason |-> "Could not parse AI response as JSON"]
      [] caller = "analyze_network_logs" -> <<body>>

Returns(caller, value) == [op |-> caller, kind |-> "value", value |-> value]
Raises(caller, error) == [op |-> caller, kind |-> "raise", value |-> error]

InitAi ==
    /\ Quiet
    /\ now = 0
    /\ calls = <<>>
    /\ patterns = <<>>
    /\ actions_enabled = <<>>

(* A caller is entered. *)
StartCall ==
    /\ pc \in {"idle", "done"}
    /\ cycles < MaxAiCalls
    /\ \E caller \in AiCallers : arg1' = [caller |-> caller]
    /\ pc' = "health"
    /\ calls' = <<>> /\ ops' = 0 /\ ret' = NoValue /\ arg2' = <<>>
    /\ cycles' = cycles + 1
    /\ UNCHANGED <<now, tables, patterns, outcomes, metrics, actions_log, health_data,
                   previous_health, actions_enabled, recommended, cmd_log>>

(* check_ollama_health catches ConnectionError and Timeout only; any other
   exception of requests.get leaves it and the caller, which makes the check
   outside its try block. *)
HealthCheck ==
    /\ pc = "health"
    /\ \E outcome \in HealthOutcomes :
        /\ now' = now + (IF outcome = "Timeout" THEN HealthTimeout ELSE 0)
        /\ CASE outcome = "200" -> pc' = "request" /\ ret' = ret /\ arg2' = arg2
             [] outcome = "RequestException" ->
                    pc' = "done" /\ ret' = Raises(arg1.caller, outcome) /\ arg2' = arg2
             [] OTHER ->
                    IF WaitsForOllama(arg1.caller)
                    THEN pc' = "wait" /\ ret' = ret /\ arg2' = <<now'>>
                    ELSE /\ pc' = "done" /\ arg2' = arg2
                         /\ ret' = Returns(arg1.caller, Unavailable(arg1.caller, "not responding"))
    /\ UNCHANGED <<tables, patterns, outcomes, metrics, actions_log, health_data,
                   previous_health, actions_enabled, recommended, cmd_log, arg1,
                   calls, ops, cycles>>

(* wait_for_ollama, one pass of its while loop *)
WaitForOllama ==
    /\ pc = "wait"
    /\ IF now - arg2[1] < max_wait
       THEN \E outcome \in HealthOutcomes :
            CASE outcome = "200" -> pc' = "request" /\ ret' = ret /\ now' = now
              [] outcome = "RequestException" ->
                    pc' = "done" /\ ret' = Raises(arg1.caller, outcome) /\ now' = now
              [] OTHER -> pc' = "wait" /\ ret' = ret /\ now' = now + BackoffSeconds
       ELSE /\ pc' = "done" /\ now' = now
            /\ ret' = Returns(arg1.caller, Unavailable(arg1.caller, "not responding"))
    /\ UNCHANGED <<tables, patterns, outcomes, metrics, actions_log, health_data,
                   previous_health, actions_enabled, recommended, cmd_log, arg1, arg2,
                   calls, ops, cycles>>

(* safe_ollama_request, one attempt; the exception it raises on the last
   attempt is caught by the except Exception branch of its caller. *)
Attempt ==
    /\ pc = "request"
    /\ \E outcome \in RequestOutcomes, body \in Bodies :
        /\ outcome # "ok" => body = "prose"
        /\ now' = now + Duration(arg1.caller, outcome)
        /\ calls' = Append(calls, [attempt |-> ops, started |-> now, ended |-> now',
                                   outcome |-> outcome])
        /\ CASE AfterAttempt(ops, outcome) = "return" ->
                    pc' = "done" /\ ret' = Returns(arg1.caller, Answer(arg1.caller, body))
             [] AfterAttempt(ops, outcome) = "raise" ->
                    pc' = "done" /\ ret' = Returns(arg1.caller, Unavailable(arg1.caller, outcome))
             [] OTHER -> pc' = "backoff" /\ ret' = ret
    /\ UNCHANGED <<tables, patterns, outcomes, metrics, actions_log, health_data,
                   previous_health, actions_enabled, recommended, cmd_log, arg1, arg2,
                   ops, cycles>>

(* time.sleep(5) and the next pass of the for loop *)
Backoff ==
    /\ pc = "backoff"
    /\ now' = now + BackoffSeconds
    /\ ops' = ops + 1
    /\ pc' = "request"
    /\ UNCHANGED <<tables, patterns, outcomes, metrics, actions_log, health_data,
                   previous_health, actions_enabled, recommended, cmd_log, ret,
                   arg1, arg2, calls, cycles>>

NextAi ==
    \/ StartCall
    \/ HealthCheck
    \/ WaitForOllama
    \/ Attempt
    \/ Backoff

SpecAi == InitAi /\ [][NextAi]_vars

(* Every request has a timeout and every sleep ends, so a call that can take a
   step takes it. *)
FairAi ==
    SpecAi /\ WF_vars(HealthCheck) /\ WF_vars(WaitForOllama) /\ WF_vars(Attempt)
           /\ WF_vars(Backoff)

AllAttemptsFailed ==
    /\ pc = "done"
    /\ Len(calls) = max_retries + 1
    /\ calls[Len(calls)].outcome # "ok"

(* C21: a call makes at most max_retries + 1 attempts, each one BackoffSeconds
   after the failed one before it; no attempt follows a successful one; when
   every attempt has failed the caller returns its default (none,
   investigate, an unavailable text) and raises nothing; and a call that was
   entered comes to its end. *)
C21_AiCallBounded ==
    /\ [](/\ Len(calls) <= max_retries + 1
          /\ \A i \in 1..(Len(calls) - 1) :
                /\ calls[i].outcome # "ok"
                /\ calls[i + 1].started = calls[i].ended + BackoffSeconds
          /\ (pc = "done" /\ calls # <<>> /\ calls[Len(calls)].outcome = "ok")
                => ret = Returns(arg1.caller, ret.value)
          /\ AllAttemptsFailed =>
                /\ ret.kind = "value"
                /\ ret.value = Unavailable(arg1.caller, calls[Len(calls)].outcome)
                /\ arg1.caller = "ask_ollama_for_action" => ret.value.action = "none"
                /\ arg1.caller = "consult_ai_for_service_issue"
                      => ret.value.solution = "investigate"
                /\ arg1.caller = "analyze_network_logs"
                      => Head(ret.value) = "Network analysis unavailable:")
    /\ (pc = "health") ~> (pc = "done")

C21_Witness ==
    /\ AllAttemptsFailed
    /\ arg1.caller = "consult_ai_for_service_issue"
    /\ calls[1].outcome = "Timeout" /\ calls[3].outcome = "ConnectionError"
    /\ ret.value.solution = "investigate"
-----------------------------------------------------------------------------
(* ServiceTroubleshooter on names, status texts and journals given as texts.
   A text is the sequence of its fragments; a pattern of the table occurs in
   it when it equals one of the fragments, both taken in lower case. *)

MaxTriageOps == 3    \* calls made to the ServiceTroubleshooter

(* The 'pattern' of each entry of problematic_patterns, as it is written. *)
PatternOf(issue) ==
    CASE issue = "rng-tools" -> "rng-tools"
      [] issue = "avahi-daemon" -> "avahi-daemon"
      [] issue = "bluetooth" -> "bluetooth"
      [] issue = "failed-to-start" -> "Failed to start"
      [] issue = "filesystem_recovery" -> "recovery required on readonly filesystem"
      [] issue = "orphan_inodes" -> "orphan cleanup on readonly fs"
      [] issue = "ext4_recovery" -> "EXT4-fs.*recovery"
      [] issue = "cloudflared_yaml_error" -> "error parsing YAML in config file"
      [] issue = "cloudflared_config_error" -> "mapping values are not allowed in this context"

(* str.lower() *)
Lower(fragment) ==
    CASE fragment = "Bluetooth" -> "bluetooth"
      [] fragment = "Failed to start" -> "failed to start"
      [] fragment = "FAILED TO START" -> "failed to start"
      [] fragment = "EXT4-fs.*recovery" -> "ext4-fs.*recovery"
      [] fragment = "EXT4-fs (mmcblk0p2): recovery complete" ->
            "ext4-fs (mmcblk0p2): recovery complete"
      [] fragment = "error parsing YAML in config file" ->
            "error parsing yaml in config file"
      [] fragment = "Error parsing YAML in config file" ->
            "error parsing yaml in config file"
      [] OTHER -> fragment

Fragments(text) ==
    CASE text = "rng-tools.service" -> <<"rng-tools", ".service">>
      [] text = "Bluetooth.service" -> <<"Bluetooth", ".service">>
      [] text = "nginx.service" -> <<"nginx", ".service">>
      [] text = "FAILED TO START bluetooth" -> <<"FAILED TO START", " ", "bluetooth">>
      [] text = "journal of a clean boot" -> <<"EXT4-fs (mmcblk0p2): recovery complete">>
      [] text = "journal after a power cut" ->
            <<"orphan cleanup on readonly fs", "\n",
              "recovery required on readonly filesystem", "\n",
              "EXT4-fs (mmcblk0p2): recovery complete">>
      [] text = "journal of cloudflared" -> <<"Error parsing YAML in config file">>
      [] OTHER -> <<text>>

(* As OccursIn, without lower(). *)
OccursInSameCase(pattern, text) ==
    \E i \in 1..Len(Fragments(text)) : Fragments(text)[i] = pattern

(* pattern.lower() in text.lower() *)
OccursIn(pattern, text) ==
    \E i \in 1..Len(Fragments(text)) : Lower(Fragments(text)[i]) = Lower(pattern)

PatternsIn(text) ==
    {ProblematicPatterns[i][1] : i \in {j \in 1..Len(ProblematicPatterns) :
        OccursIn(PatternOf(ProblematicPatterns[j][1]), text)}}

(* The failed unit of that name and status text. *)
UnitOf(name, status) == Unit(name, PatternsIn(name), status, PatternsIn(status), "valid")

(* analyze_journal_issues(journal_output): a recommendation has no 'service' *)
analyze_journal_issues(journal_output) ==
    LET hits == SelectSeq(ProblematicPatterns,
                          LAMBDA e : OccursIn(PatternOf(e[1]), journal_output))
    IN  [i \in 1..Len(hits) |->
            [issue |-> hits[i][1], solution |-> hits[i][2], confidence |-> "high",
             source |-> "journal_analysis"]]

(* The solutions for which execute_solution calls run_command_func. *)
RunnerSolutions == {"disable_service", "stop_service", "investigate_logs", "reinstall_service"}

(* The command execute_solution hands to run_command_func first. *)
FirstCommand(recommendation) ==
    CASE recommendation.solution = "disable_service" ->
            <<"systemctl disable --now", recommendation.service>>
      [] recommendation.solution = "stop_service" ->
            <<"systemctl stop", recommendation.service>>
      [] recommendation.solution = "investigate_logs" ->
            <<"journalctl -u", recommendation.service>>
      [] recommendation.solution = "reinstall_service" ->
            <<"apt install --reinstall", recommendation.service>>

(* execute_solution(recommendation, run_command_func) for any recommendation
   and any run_command_func: recommendation['service'] is read before the
   try block; an exception of run_command_func is caught in it. *)
execute_solution_with(recommendation, runner, rows, ts) ==
    IF "service" \notin DOMAIN recommendation
    THEN Raised(<<>>, rows, FALSE)
    ELSE IF runner = "raises" /\ recommendation.solution \in RunnerSolutions
    THEN Ran(<<"ERROR:", "Failed to execute solution for", recommendation.service>>,
             <<FirstCommand(recommendation)>>, rows, TRUE)
    ELSE execute_solution(recommendation,
                          [outcome |-> IF runner = "raises" THEN "ok" ELSE runner],
                          rows, ts)

(* Rows a knowledge.db may hold for service issues seen before. *)
ServiceIssueRows ==
    LET Row(name, status, confidence, solution) ==
            [pattern_hash |-> PatternHash(<<(<<"service", Str(name)>>),
                                            (<<"status_output", Str(status)>>)>>),
             pattern_type |-> "service_issue",
             pattern_data |-> <<(<<"service", Str(name)>>),
                                (<<"status_output", Str(status)>>)>>,
             first_seen |-> 0, last_seen |-> 0, occurrence_count |-> 3,
             severity |-> 5, confidence |-> confidence, solution |-> solution,
             success_rate |-> 0]
    IN  <<Row("Bluetooth.service", "failed", 8, "stop_service"),
          Row("nginx.service", "failed", 5, "reinstall_service"),
          Row("nginx.service", "Failed to start", 5, "restart_service")>>

ServiceNames == {"rng-tools.service", "Bluetooth.service", "nginx.service"}
StatusTexts == {"failed", "Failed to start", "FAILED TO START bluetooth",
                "journal of a clean boot"}
Journals == {"journal of a clean boot", "journal after a power cut",
             "journal of cloudflared"}
Runners == CmdOutcomes \cup {"raises"}

(* Recommendations that come from neither analysis. *)
OtherRecommendations ==
    {[service |-> "nginx.service", solution |-> "reinstall_service"],
     [service |-> "nginx.service", solution |-> "reboot_universe"]}

InitTriage ==
    /\ Quiet
    /\ now = 0
    /\ calls = <<>>
    /\ patterns \in {<<>>, ServiceIssueRows}
    /\ actions_enabled = <<>>

TriageCall ==
    /\ ops < MaxTriageOps
    /\ ops' = ops + 1
    /\ now' = now + 1
    /\ UNCHANGED <<tables, outcomes, metrics, actions_log, health_data, previous_health,
                   actions_enabled, recommended, pc, calls, cycles>>

AnalyzeServiceIssue ==
    /\ TriageCall
    /\ \E name \in ServiceNames, status \in StatusTexts :
        /\ arg1' = [service_name |-> name, service_status_output |-> status]
        /\ ret' = [op |-> "analyze_service_issue", raised |-> FALSE,
                   value |-> analyze_service_issue(UnitOf(name, status), patterns)]
    /\ UNCHANGED <<patterns, cmd_log, arg2>>

AnalyzeJournalIssues ==
    /\ TriageCall
    /\ \E journal_output \in Journals :
        /\ arg1' = [journal_output |-> journal_output]
        /\ ret' = [op |-> "analyze_journal_issues", raised |-> FALSE,
                   value |-> analyze_journal_issues(journal_output)]
    /\ UNCHANGED <<patterns, cmd_log, arg2>>

(* execute_solution on a recommendation of the last analysis, or on another *)
ExecuteSolution ==
    /\ TriageCall
    /\ \E recommendation \in
            (IF ret.op \in {"analyze_service_issue", "analyze_journal_issues"}
             THEN {ret.value[i] : i \in 1..Len(ret.value)} ELSE {})
                \cup OtherRecommendations,
          runner \in Runners :
        \E run \in {execute_solution_with(recommendation, runner, patterns, now + 1)} :
            /\ arg1' = [recommendation |-> recommendation, runner |-> runner]
            /\ ret' = [op |-> "execute_solution", raised |-> run.raised,
                       value |-> run.result]
            /\ cmd_log' = cmd_log \o run.cmds
            /\ patterns' = run.patterns
    /\ arg2' = ret

NextTriage ==
    \/ AnalyzeServiceIssue
    \/ AnalyzeJournalIssues
    \/ ExecuteSolution

SpecTriage == InitTriage /\ [][NextTriage]_vars

(* The entries of the table whose pattern occurs in the name or the status
   text, whatever the case of the letters, in the order of the table. *)
MatchingEntries(name, status) ==
    SelectSeq(ProblematicPatterns, LAMBDA e :
        \E text \in {name, status} : \E i \in 1..Len(Fragments(text)) :
            Lower(Fragments(text)[i]) = Lower(PatternOf(e[1])))

BuiltinCount(recommendations) ==
    Cardinality({i \in 1..Len(recommendations) :
                    recommendations[i].source = "builtin_knowledge"})

(* C22: analyze_service_issue returns one built-in recommendation for each
   entry of the table whose pattern occurs, in any case, in the service name
   or the status text, in table order, with confidence high exactly when the
   pattern occurs in the name; every learned recommendation comes after all
   built-in ones, so that the first element is built-in whenever an entry
   matches. *)
C22_BuiltinFirstInTableOrder ==
    ret.op = "analyze_service_issue" =>
        LET matching == MatchingEntries(arg1.service_name, arg1.service_status_output)
            n == Len(matching)
        IN  /\ BuiltinCount(ret.value) = n
            /\ Len(ret.value) >= n
            /\ \A i \in 1..n :
                /\ ret.value[i].source = "builtin_knowledge"
                /\ ret.value[i].issue = matching[i][1]
                /\ ret.value[i].solution = matching[i][2]
                /\ ret.value[i].service = arg1.service_name
                /\ ret.value[i].confidence = "high" <=>
                        \E j \in 1..Len(Fragments(arg1.service_name)) :
                            Lower(Fragments(arg1.service_name)[j])
                                = Lower(PatternOf(matching[i][1]))
                /\ ret.value[i].confidence \in {"high", "medium"}
            /\ \A i \in (n + 1)..Len(ret.value) :
                /\ ret.value[i].source = "learned_knowledge"
                /\ ret.value[i].issue = "learned_pattern"
            /\ n > 0 => ret.value[1].source = "builtin_knowledge"

C22_Witness ==
    /\ ret.op = "analyze_service_issue"
    /\ arg1.service_name = "Bluetooth.service"
    /\ arg1.service_status_output = "failed"
    /\ Len(ret.value) = 2
    /\ ret.value[1].issue = "bluetooth" /\ ret.value[1].confidence = "high"
    /\ ret.value[2].issue = "learned_pattern" /\ ret.value[2].solution = "stop_service"

(* C23: execute_solution raises nothing and returns a text that begins with
   SUCCESS: or ERROR:, whatever the recommendation and whatever
   run_command_func does. *)
C23_ExecuteSolutionNeverRaises ==
    ret.op = "execute_solution" =>
        /\ ~ret.raised
        /\ Head(ret.value) \in {"SUCCESS:", "ERROR:"}
-----------------------------------------------------------------------------
(* The security rule in the cycle of run_enhanced *)

(* The commands the step just taken handed to subprocess.run. *)
NewCommands == SubSeq(cmd_log', Len(cmd_log) + 1, Len(cmd_log'))

(* The addresses of the snapshot that were seen more than 20 times. *)
AddressesToBan ==
    SelectSeq(health_data.security.suspicious_ips, LAMBDA e : 20 < e[2])

(* C24: when failed_logins of the snapshot is above its threshold, analyze
   recommends increase_security with priority high; an execute_action that
   runs increase_security hands ufw one ban for each suspicious address
   counted more than 20 times and for no other, and appends one row to
   action_outcomes with action_type increase_security and success = 1. *)
C24_IncreaseSecurity ==
    /\ []((ret.op = "analyze_system_state" /\ ~ret.raised
              /\ health_data.security.failed_logins > Thresholds.failed_logins)
            => \E i \in 1..Len(ret.value) :
                    /\ ret.value[i].action = "increase_security"
                    /\ ret.value[i].priority = "high")
    /\ [][(pc = "execute" /\ ret'.op = "execute_action" /\ ret'.passed
              /\ arg1'.action = "increase_security")
            => /\ SelectSeq(NewCommands, LAMBDA c : c[1] = "ufw deny from")
                    = [i \in 1..Len(AddressesToBan) |->
                            <<"ufw deny from", AddressesToBan[i][1]>>]
               /\ Len(outcomes') = Len(outcomes) + 1
               /\ SubSeq(outcomes', 1, Len(outcomes)) = outcomes
               /\ Last(outcomes').action_type = "increase_security"
               /\ Last(outcomes').success = 1]_vars

C24_Witness ==
    /\ Executed /\ ret.passed
    /\ arg1.action = "increase_security" /\ arg1.priority = "high"
    /\ health_data.security.failed_logins > Thresholds.failed_logins
    /\ Last(cmd_log) = <<"systemctl restart", "ssh">>
    /\ \E i \in 1..Len(cmd_log) : cmd_log[i] = <<"ufw deny from", "1.2.3.4">>
    /\ \A i \in 1..Len(cmd_log) : cmd_log[i] # <<"ufw deny from", "5.6.7.8">>
    /\ Last(outcomes).action_type = "increase_security"
    /\ Last(outcomes).success = 1
-----------------------------------------------------------------------------
(* calculate_improvement on two snapshots drawn from a bounded set:
   previous_health and health_data are its arguments. *)

ImprovementReading(cpu, memory, load, disk, failed) ==
    [BaseReading EXCEPT !.cpu_percent = cpu, !.memory_percent = memory,
                        !.load_15min = load, !.disk_percent = disk,
                        !.failed_count = failed]

(* No snapshot yet, the snapshot of a failed collection, and the snapshots
   in which each of the five readings is zero or not. *)
PreviousSnapshots ==
    {NoHealth, ErrorSnapshot(0)}
        \cup {Snapshot(0, ImprovementReading(cpu, memory, load, disk, failed)) :
                cpu \in {0, 4}, memory \in {0, 8}, load \in {0, 4},
                disk \in {0, 9}, failed \in {0, 2}}

CurrentSnapshots ==
    {Snapshot(1, ImprovementReading(r[1], r[2], r[3], r[4], r[5])) :
        r \in {<<4, 8, 4, 9, 2>>, <<2, 4, 2, 3, 1>>,
               <<8, 9, 6, 10, 3>>, <<0, 0, 0, 0, 0>>}}

InitImprove ==
    /\ tables = RequiredTables
    /\ patterns = <<>> /\ outcomes = <<>> /\ metrics = <<>> /\ actions_log = <<>>
    /\ previous_health \in PreviousSnapshots
    /\ health_data \in CurrentSnapshots
    /\ actions_enabled = <<>> /\ recommended = <<>> /\ pc = "idle" /\ cmd_log = <<>>
    /\ ret = NoValue /\ arg1 = <<>> /\ arg2 = <<>> /\ calls = <<>>
    /\ now = 1 /\ ops = 0 /\ cycles = 0

CalculateImprovement ==
    /\ ret = NoValue
    /\ ret' = [op |-> "calculate_improvement",
               value |-> calculate_improvement(previous_health, health_data)]
    /\ ops' = ops + 1
    /\ UNCHANGED <<now, tables, patterns, outcomes, metrics, actions_log, health_data,
                   previous_health, actions_enabled, recommended, pc, cmd_log,
                   arg1, arg2, calls, cycles>>

NextImprove == CalculateImprovement

SpecImprove == InitImprove /\ [][NextImprove]_vars

(* The five readings of a snapshot with their weights in hundredths, in the
   order cpu, memory, load, disk, failed services. *)
Weights == <<25, 25, 20, 15, 15>>

Factors(h) ==
    <<h.cpu.percent, h.memory.percent, h.cpu.load_15min, h.disk.percent,
      h.services.failed_count>>

RECURSIVE Product(_)
Product(s) == IF s = <<>> THEN 1 ELSE Head(s) * Product(Tail(s))

(* The previous readings, with 1 in the place of a reading that is 0. *)
Divisors(previous) ==
    [i \in 1..5 |-> IF Factors(previous)[i] = 0 THEN 1 ELSE Factors(previous)[i]]

(* weight * (previous - current) / previous * 100 for reading i, multiplied
   by the product of all divisors; 0 when the previous reading is 0. *)
ScaledTerm(i, previous, current) ==
    IF Factors(previous)[i] = 0 THEN 0
    ELSE Weights[i] * (Factors(previous)[i] - Factors(current)[i])
            * (Product(Divisors(previous)) \div Factors(previous)[i])

(* C25: the improvement score of two snapshots is the sum, over cpu percent
   (0.25), memory percent (0.25), load_15min (0.20), disk percent (0.15) and
   the number of failed services (0.15), of weight * (previous - current) /
   previous * 100, a term whose previous reading is 0 counting as 0; the
   score is 0 when there is no previous snapshot. *)
C25_ImprovementScore ==
    ret.op = "calculate_improvement" =>
        /\ previous_health.kind = "empty" => ret.value = Zero
        /\ previous_health.kind = "full" =>
            /\ Len(ret.value) = 2 /\ ret.value[2] > 0
            /\ ret.value[1] * Product(Divisors(previous_health))
                = ret.value[2] * (ScaledTerm(1, previous_health, health_data)
                                  + ScaledTerm(2, previous_health, health_data)
                                  + ScaledTerm(3, previous_health, health_data)
                                  + ScaledTerm(4, previous_health, health_data)
                                  + ScaledTerm(5, previous_health, health_data))

C25_Witness ==
    /\ ret.op = "calculate_improvement"
    /\ previous_health.kind = "full"
    /\ Factors(previous_health) = <<4, 8, 0, 9, 0>>
    /\ Factors(health_data) = <<2, 4, 2, 3, 1>>
    /\ ret.value = <<35, 1>>
-----------------------------------------------------------------------------
(* The failed-services flow on the lines systemctl --failed prints. *)

MaxRestartCalls == 2     \* calls of enhanced_restart_failed_services

(* A line whose first field is the bullet systemd prints before a failed
   unit; the loop skips it, as it skips an empty line. *)
BulletLine == Unit("●", {}, "", {}, "valid")

(* The lines the loop goes on with. *)
Enumerated(listing) == SelectSeq(listing, LAMBDA u : u.name \notin {"", "●"})

(* What systemctl --failed may list: units given by name and status text,
   one of them no valid unit, one for which no shell can be started, and the
   tunnel with and without a YAML error in its logs. *)
Listings ==
    {<<>>,
     <<BulletLine>>,
     <<UnitOf("Bluetooth.service", "Failed to start"), UnitOf("nginx.service", "failed")>>,
     <<UnitOf("cloudflared.service", "failed")>>,
     <<[UnitOf("cloudflared.service", "failed") EXCEPT !.logs_yaml_error = FALSE],
       [UnitOf("ghost.service", "not-found") EXCEPT !.check = "invalid"]>>,
     <<BulletLine, UnitOf("rng-tools.service", "failed")>>,
     <<[UnitOf("myapp.service", "failed") EXCEPT !.check = "oserror"]>>}

(* enhanced_restart_failed_services() on such a listing: an empty output
   ends the flow, anything else is split into lines. *)
restart_listed(listing, env, rows, ts) ==
    IF listing = <<>>
    THEN enhanced_restart_failed_services([env EXCEPT !.services = <<>>], rows, ts)
    ELSE RestartResult(<<(<<"systemctl --failed --no-legend", "">>)>>,
                       RestartEach(Enumerated(listing), env, rows, ts))

InitRestart ==
    /\ Quiet
    /\ now = 0
    /\ calls = <<>>
    /\ patterns \in {<<>>, ServiceIssueRows}
    /\ actions_enabled = DefaultActions

(* One call of the flow; ret keeps the list results and the commands run. *)
EnhancedRestart ==
    /\ ops < MaxRestartCalls
    /\ \E listing \in Listings, outcome \in CmdOutcomes :
        \E env \in {[outcome |-> outcome, services |-> Enumerated(listing),
                     active |-> {}]} :
            \E run \in {restart_listed(listing, env, patterns, now + 1)} :
                /\ arg1' = [listing |-> listing, outcome |-> outcome, rows |-> patterns]
                /\ ret' = [op |-> "enhanced_restart_failed_services",
                           raised |-> run.raised, value |-> run.result,
                           cmds |-> run.cmds,
                           results |-> IF run.raised \/ listing = <<>> THEN <<>>
                                       ELSE RestartEach(Enumerated(listing), env,
                                                        patterns, now + 1).lines]
                /\ patterns' = run.patterns
                /\ cmd_log' = cmd_log \o run.cmds
    /\ ops' = ops + 1
    /\ now' = now + 1
    /\ UNCHANGED <<tables, outcomes, metrics, actions_log, health_data, previous_health,
                   actions_enabled, recommended, pc, arg2, calls, cycles>>

NextRestart == EnhancedRestart

SpecRestart == InitRestart /\ [][NextRestart]_vars

(* The commands that change a unit or a file, as opposed to those that list
   and read. *)
Remediation(cmd) ==
    cmd[1] \notin {"systemctl --failed --no-legend", "systemctl status",
                   "journalctl -u", "systemctl cat"}

(* What the result entry says for each solution of execute_solution. *)
SolutionPhrase(solution) ==
    CASE solution = "disable_service" -> "Disabling problematic service"
      [] solution = "stop_service" -> "Stopping non-essential service"
      [] solution = "investigate_logs" -> "Investigating logs"
      [] solution = "reinstall_service" -> "Reinstalling"
      [] OTHER -> "No action taken for"

(* The entry of results for the service is the one of the path the service
   is to take. *)
EntryFollowsPath(sv, entry, cmds, rows) ==
    LET recommendations == analyze_service_issue(sv, rows) IN
    /\ Head(entry) = sv.name
    /\ IF sv.cloudflared /\ sv.logs_yaml_error
       THEN /\ Last(entry) = "(Cloudflare-specific fix)"
            /\ \E i \in 1..Len(cmds) : cmds[i][1] = "python3 -c yaml.safe_load"
       ELSE IF recommendations # <<>>
       THEN /\ Last(entry) = "(AI troubleshooting)"
            /\ entry[2] = "SUCCESS:"
            /\ entry[3] = SolutionPhrase(recommendations[1].solution)
            /\ \A i \in 1..Len(cmds) : cmds[i] # <<"systemctl restart", sv.name>>
       ELSE IF sv.check = "valid"
       THEN /\ entry = <<sv.name>> \o run_command(arg1.outcome)
            /\ \E i \in 1..Len(cmds) : cmds[i] = <<"systemctl restart", sv.name>>
       ELSE /\ entry = <<sv.name, "SKIPPED (not a valid service)">>
            /\ \A i \in 1..Len(cmds) : Remediation(cmds[i]) => cmds[i][2] # sv.name

(* C26: when the flow returns, results has exactly one entry for each
   enumerated failed service, in order: that of the YAML repair for a
   cloudflared unit whose logs show a YAML error, else that of the first
   recommendation of analyze_service_issue when there is one, else that of a
   plain restart, or SKIPPED for a unit that is no valid service.  When
   nothing is listed the flow returns "No failed services found" and runs no
   remediation command. *)
C26_OneEntryPerFailedService ==
    (ret.op = "enhanced_restart_failed_services" /\ ~ret.raised) =>
        LET services == Enumerated(arg1.listing) IN
        /\ arg1.listing = <<>> =>
            /\ ret.value = <<"No failed services found">>
            /\ \A i \in 1..Len(ret.cmds) : ~Remediation(ret.cmds[i])
        /\ arg1.listing # <<>> =>
            /\ Len(ret.results) = Len(services)
            /\ ret.value = JoinLines(ret.results)
            /\ \A i \in 1..Len(services) :
                    EntryFollowsPath(services[i], ret.results[i], ret.cmds, arg1.rows)

C26_Witness ==
    /\ ret.op = "enhanced_restart_failed_services" /\ ~ret.raised
    /\ Len(arg1.listing) = 2 /\ arg1.listing[1].name = "Bluetooth.service"
    /\ arg1.rows = <<>>
    /\ Len(ret.results) = 2
    /\ ret.results[1] = <<"Bluetooth.service", "SUCCESS:", "Stopping non-essential service",
                          "Bluetooth.service", "(AI troubleshooting)">>
    /\ ret.results[2] = <<"nginx.service", "ERROR:", "Command timed out">>
-----------------------------------------------------------------------------
(* The doctor of src/app.py: one AutonomousDoctor, made by init_doctor, on
   which the worker thread of /api/run-doctor runs run_enhanced while the
   request thread of /api/system-health (or another worker) calls
   collect_health_data.  Nothing serializes the two threads, so a collection
   may fall between any two steps of the cycle.  calls keeps, for each such
   collection, the cycle and the step it fell in and the snapshot it
   replaced. *)

MaxSharedCollects == 1   \* collections made by the other thread

InitShared ==
    /\ Quiet
    /\ now = 0
    /\ calls = <<>>
    /\ patterns = <<>>
    /\ actions_enabled = DefaultActions

(* What the other thread may read. *)
SharedReadings == {BaseReading, Elevated({"memory_percent"})}

(* collect_health_data() of the other thread, while the cycle is under way *)
ConcurrentCollect ==
    /\ pc \in {"detect", "analyze", "execute"}
    /\ Len(calls) < MaxSharedCollects
    /\ \E h \in {Snapshot(now + 1, r) : r \in SharedReadings}
                    \cup {ErrorSnapshot(now + 1)} :
        /\ health_data' = h
        /\ IF h.kind = "full" /\ TablesExist
           THEN metrics' = StoredMetrics(metrics, h, now + 1) /\ tables' = tables
           ELSE metrics' = metrics
                /\ tables' = IF h.kind = "full" THEN RequiredTables ELSE tables
    /\ calls' = Append(calls, [cycle |-> cycles, pc |-> pc, replaced |-> health_data])
    /\ previous_health' = health_data
    /\ now' = now + 1
    /\ UNCHANGED <<patterns, outcomes, actions_log, actions_enabled, recommended, pc,
                   cmd_log, ret, arg1, arg2, ops, cycles>>

NextShared ==
    \/ Collect
    \/ Detect
    \/ Analyze
    \/ ExecuteAction
    \/ ConcurrentCollect

SpecShared == InitShared /\ [][NextShared]_vars

(* The snapshot analyze_system_state read in the present cycle: the one the
   doctor holds, unless the other thread has replaced it since. *)
AnalyzedSnapshot ==
    LET since == SelectSeq(calls, LAMBDA c : c.cycle = cycles /\ c.pc = "execute")
    IN  IF since = <<>> THEN health_data ELSE since[1].replaced

(* C27: the row an execute_action appends to action_outcomes carries the
   hash of the snapshot from which its action was recommended, also when
   another thread has collected a snapshot since the analysis. *)
C27_HashOfAnalyzedSnapshot ==
    [][(pc = "execute" /\ ret'.op = "execute_action" /\ ret'.passed
            /\ Len(outcomes') = Len(outcomes) + 1)
        => Last(outcomes').system_state_hash = StateHash(AnalyzedSnapshot)]_vars
-----------------------------------------------------------------------------
(* What the cycle does to system_patterns, starting on a new knowledge.db:
   the two store_pattern calls of the cycle (execute_autonomous_fixes,
   execute_solution) and the two get_similar_patterns calls
   (analyze_system_state, analyze_service_issue), in any order and number. *)

MaxLearnOps == 4     \* calls the cycles make on system_patterns

InitLearn ==
    /\ Quiet
    /\ now = 0
    /\ calls = <<>>
    /\ patterns = <<>>
    /\ actions_enabled = DefaultActions

LearnCall ==
    /\ ops < MaxLearnOps
    /\ ops' = ops + 1
    /\ now' = now + 1
    /\ UNCHANGED <<tables, outcomes, metrics, actions_log, health_data, previous_health,
                   actions_enabled, recommended, pc, cmd_log, arg2, calls, cycles>>

(* execute_autonomous_fixes: store_pattern('raspberry_issue', ...) for each
   detected issue *)
FixStoresPatterns ==
    /\ LearnCall
    /\ \E journal \in JournalScenes :
        /\ DetectedIssues(journal) # <<>>
        /\ arg1' = journal
        /\ patterns' = FixPatterns(DetectedIssues(journal), patterns, now + 1)
        /\ ret' = [op |-> "execute_autonomous_fixes", value |-> DetectedIssues(journal)]

(* execute_solution for investigate_logs: store_pattern('service_logs', ...) *)
SolutionStoresPattern ==
    /\ LearnCall
    /\ \E name \in ServiceNames, outcome \in CmdOutcomes :
        \E run \in {execute_solution([service |-> name, solution |-> "investigate_logs"],
                                     [outcome |-> outcome], patterns, now + 1)} :
            /\ arg1' = [service |-> name, outcome |-> outcome]
            /\ patterns' = run.patterns
            /\ ret' = [op |-> "execute_solution", value |-> run.result]

(* analyze_system_state: get_similar_patterns(system_pattern, 'system_state')
   and the actions made of what it returns *)
AnalyzeQueriesPatterns ==
    /\ LearnCall
    /\ \E r \in {BaseReading, Elevated({"temperature"})} :
        /\ arg1' = r
        /\ ret' = [op |-> "analyze_system_state",
                   value |-> LearnedActions(
                       SimilarPatterns(patterns, SystemPattern(Snapshot(now + 1, r)),
                                       "system_state", <<4, 5>>))]
    /\ UNCHANGED patterns

(* analyze_service_issue: get_similar_patterns(pattern_data, 'service_issue')
   and the recommendations made of what it returns *)
ServiceQueriesPatterns ==
    /\ LearnCall
    /\ \E name \in ServiceNames, status \in {"failed", "Failed to start"} :
        /\ arg1' = [service_name |-> name, service_status_output |-> status]
        /\ ret' = [op |-> "analyze_service_issue",
                   value |-> analyze_service_issue(UnitOf(name, status), patterns)]
    /\ UNCHANGED patterns

NextLearn ==
    \/ FixStoresPatterns
    \/ SolutionStoresPattern
    \/ AnalyzeQueriesPatterns
    \/ ServiceQueriesPatterns

SpecLearn == InitLearn /\ [][NextLearn]_vars

(* Every cycle analyses the system state, and the services when some have
   failed; whether a cycle stores a pattern depends on what the journal and
   the services show, so the stores run under no fairness condition.  The
   second condition is weak fairness of ServiceQueriesPatterns, which is
   enabled exactly while ops < MaxLearnOps. *)
FairServiceQueries ==
    []<>(ops = MaxLearnOps) \/ []<><<ServiceQueriesPatterns>>_vars

FairLearn ==
    SpecLearn /\ WF_vars(AnalyzeQueriesPatterns) /\ FairServiceQueries

(* The last analysis made an action or a recommendation of a learned
   pattern. *)
LearnedEmitted ==
    \/ ret.op = "analyze_system_state" /\ ret.value # <<>>
    \/ /\ ret.op = "analyze_service_issue"
       /\ \E i \in 1..Len(ret.value) : ret.value[i].issue = "learned_pattern"

(* A pattern the cycle stored has been seen more than twice. *)
SeenOften == \E i \in 1..Len(patterns) : patterns[i].occurrence_count > 2

(* From the new knowledge.db on, no analysis is fed by a learned pattern,
   however often the cycle has stored one. *)
NothingLearnedFromEmptyStore == ~LearnedEmitted

(* C28: starting from an empty system_patterns, the cycles come to an
   analysis that emits a learned-pattern action or a learned_pattern
   recommendation. *)
C28_LearningFeedsBack == <>LearnedEmitted
-----------------------------------------------------------------------------
(* run_enhanced with its list executed_actions and the consultation of the
   AI that follows the loop.  Here `arg2` holds recommended_actions as
   analyze_system_state returned it and `calls` holds executed_actions; the
   field `ran` of an entry records whether execute_action passed its gate,
   the tuple of the code holds the action and the result only. *)

(* What consult_ai returns: None when the request fails or the reply holds
   no JSON (decoded is FALSE), else the decoded object. *)
AiDecisions ==
    {[decoded |-> FALSE, value |-> Action("none", "", 0, "")]}
    \cup {[decoded |-> TRUE, value |-> Action(a, "", 0, "suggested")] :
            a \in {"none", "clear_cache", "reboot_system"}}

NoDecision == [decoded |-> FALSE, value |-> Action("none", "", 0, "")]

(* result = self.execute_action(action); executed_actions.append((action, result)) *)
ExecuteAndAppend(action, op, decision) ==
    /\ arg1' = action
    /\ IF GatePasses(action, actions_enabled)
       THEN \E env \in Envs(action) :
             \E run \in {RunHandler(action, health_data, env, patterns, now)} :
                 /\ patterns' = run.patterns
                 /\ cmd_log' = cmd_log \o run.cmds
                 /\ actions_log' = Append(actions_log, LogLine(action, run, now))
                 /\ outcomes' = OutcomesAfter(outcomes, action, run, health_data, now)
                 /\ tables' = RequiredTables
                 /\ calls' = Append(calls, [action |-> action, ran |-> TRUE,
                                            result |-> ResultText(action, run)])
                 /\ ret' = [op |-> op, consulted |-> op = "consult_ai",
                            decision |-> decision, passed |-> TRUE,
                            value |-> ResultText(action, run)]
       ELSE /\ calls' = Append(calls, [action |-> action, ran |-> FALSE,
                                       result |-> <<"Action", action.action,
                                                    "not enabled or not found">>])
            /\ ret' = [op |-> op, consulted |-> op = "consult_ai",
                       decision |-> decision, passed |-> FALSE,
                       value |-> <<"Action", action.action,
                                   "not enabled or not found">>]
            /\ UNCHANGED <<patterns, cmd_log, actions_log, outcomes, tables>>

(* recommended_actions = self.analyze_system_state(); executed_actions = [] *)
AnalyzeForLoop ==
    /\ pc = "analyze"
    /\ IF health_data.kind = "full"
       THEN \E actions \in {analyze_system_state(health_data, patterns, metrics, now)} :
                /\ recommended' = actions
                /\ arg2' = actions
                /\ ret' = [op |-> "analyze_system_state", consulted |-> FALSE,
                           decision |-> NoDecision, passed |-> FALSE, value |-> actions]
                /\ pc' = IF actions = <<>> THEN "consult" ELSE "execute"
                /\ cmd_log' = IF health_data.services.failed_count > 0
                              THEN Append(cmd_log, <<"systemctl --failed | tr", "">>)
                              ELSE cmd_log
       ELSE /\ recommended' = <<>>
            /\ arg2' = <<>>
            /\ ret' = [op |-> "analyze_system_state", consulted |-> FALSE,
                       decision |-> NoDecision, passed |-> FALSE, value |-> <<>>]
            /\ pc' = "idle"
            /\ cmd_log' = cmd_log
    /\ calls' = <<>>
    /\ tables' = RequiredTables
    /\ UNCHANGED <<now, patterns, outcomes, metrics, actions_log, health_data,
                   previous_health, actions_enabled, arg1, ops, cycles>>

(* for action in recommended_actions: one turn of the loop *)
ExecuteInLoop ==
    /\ pc = "execute"
    /\ recommended # <<>>
    /\ ExecuteAndAppend(Head(recommended), "execute_action", NoDecision)
    /\ recommended' = Tail(recommended)
    /\ pc' = IF Tail(recommended) = <<>> THEN "consult" ELSE "execute"
    /\ UNCHANGED <<now, metrics, health_data, previous_health, actions_enabled,
                   arg2, ops, cycles>>

(* if not executed_actions and len(recommended_actions) > 0: consult_ai and
   execute_action(ai_decision) when it is not None and its action is not
   'none'; then run_enhanced returns. *)
ConsultAi ==
    /\ pc = "consult"
    /\ IF calls = <<>> /\ Len(arg2) > 0
       THEN \E ai_decision \in AiDecisions :
                IF ai_decision.decoded /\ ai_decision.value.action # "none"
                THEN ExecuteAndAppend(ai_decision.value, "consult_ai", ai_decision)
                ELSE /\ ret' = [op |-> "consult_ai", consulted |-> TRUE,
                                decision |-> ai_decision, passed |-> FALSE,
                                value |-> <<>>]
                     /\ UNCHANGED <<patterns, cmd_log, actions_log, outcomes, tables,
                                    calls, arg1>>
       ELSE /\ ret' = [op |-> "run_enhanced", consulted |-> FALSE,
                       decision |-> NoDecision, passed |-> FALSE, value |-> calls]
            /\ UNCHANGED <<patterns, cmd_log, actions_log, outcomes, tables,
                           calls, arg1>>
    /\ pc' = "idle"
    /\ UNCHANGED <<now, metrics, health_data, previous_health, actions_enabled,
                   recommended, arg2, ops, cycles>>

InitFallback ==
    /\ Init
    /\ arg2 = <<>>

NextFallback == Collect \/ Detect \/ AnalyzeForLoop \/ ExecuteInLoop \/ ConsultAi

SpecFallback == InitFallback /\ [][NextFallback]_vars

(* The loop is over and every recommended action was skipped by the gate of
   execute_action. *)
NoneCouldRun ==
    /\ pc = "consult"
    /\ Len(arg2) > 0
    /\ \A i \in 1..Len(calls) : ~calls[i].ran

(* C29: when at least one action was recommended and every one of them was
   skipped as not enabled or not found, run_enhanced consults the AI and
   executes the action it suggests unless that is 'none'; when no action
   was recommended the AI is not consulted. *)
C29_AiFallbackConsulted ==
    [][/\ NoneCouldRun =>
            /\ ret'.consulted
            /\ (ret'.decision.decoded /\ ret'.decision.value.action # "none")
                => (arg1' = ret'.decision.value /\ Len(calls') = Len(calls) + 1)
       /\ (pc = "consult" /\ Len(arg2) = 0) => ~ret'.consulted]_vars

(* A cycle whose only recommended action was skipped has returned. *)
SkippedCycleReturned ==
    /\ ret.op = "run_enhanced"
    /\ Len(arg2) > 0
    /\ \A i \in 1..Len(calls) : ~calls[i].ran
-----------------------------------------------------------------------------
(* The commands of a cycle and the gate and the record of execute_action *)

(* The commands of the cycle that list and read only. *)
ReadingCommands ==
    {"journalctl --since | tail -100", "journalctl --since | tail -200",
     "systemctl --failed | tr", "systemctl is-active"}

(* The step just taken ran a command that changes the system. *)
RemediationRan ==
    \E i \in 1..Len(NewCommands) :
        Remediation(NewCommands[i]) /\ NewCommands[i][1] \notin ReadingCommands

(* The step just taken is an execute_action that passed the gate
   auto_<action> and left a row of action_outcomes for its action. *)
GatedAndRecorded ==
    /\ pc = "execute"
    /\ recommended # <<>>
    /\ GatePasses(Head(recommended), actions_enabled)
    /\ Len(outcomes') = Len(outcomes) + 1
    /\ outcomes'[Len(outcomes')].action_type = Head(recommended).action

(* The remediation commands of execute_action are gated and recorded. *)
ExecuteActionGatedAndRecorded ==
    [][(pc = "execute" /\ RemediationRan) => GatedAndRecorded]_vars

(* C30: in a cycle, a step runs a remediation command only as part of an
   action that passed its auto_<action> gate and that is followed by a row
   of action_outcomes for that action; the commands of
   execute_autonomous_fixes are among them. *)
C30_CommandsGatedAndRecorded == [][RemediationRan => GatedAndRecorded]_vars
====
